----------------------------- MODULE RdcCommon ------------------------------
(***************************************************************************)
(* What the components of the library share: the devices, the field ids,   *)
(* and std::map as a function whose DOMAIN is the set of keys present.     *)
(***************************************************************************)
EXTENDS Integers

CONSTANTS
  GPUs,                        \* indices rdc_device_get_all lists
  Fields,                      \* field ids is_field_valid accepts
  NotifFields,                 \* keys of rdc_2_smi_event_notif_map
  Bdf                          \* GPU index -> its bus/device/function id

ASSUME CommonConstants ==
  /\ GPUs \subseteq Nat
  /\ NotifFields \subseteq Fields
  /\ Bdf \in [GPUs -> Nat \ GPUs]

\* RdcFieldKey.  Samples are keyed by GPU index, or by bdf id when they come
\* from an event notification.
RdcFieldKey == (GPUs \cup {Bdf[g] : g \in GPUs}) \X Fields

is_notification_event(field) == field \in NotifFields

\* The map with no key.
EmptyMap == [k \in {} |-> k]

\* m[k] = v, or m.insert({k, v}) when the code has just seen k absent.
MapPut(m, k, v) == [x \in DOMAIN m \cup {k} |-> IF x = k THEN v ELSE m[x]]

\* m.erase(k) for every k in K (a no-op for the absent ones).
MapErase(m, K) == [x \in DOMAIN m \ K |-> m[x]]
=============================================================================
