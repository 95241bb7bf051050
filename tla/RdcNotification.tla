-------------------------- MODULE RdcNotification ---------------------------
(***************************************************************************)
(* RdcNotificationImpl: which asynchronous GPU events are listened for.    *)
(* gpu_evnt_notif_masks_ is the mask the library believes each GPU has;    *)
(* device_mask is the one the driver has.  The amd-smi calls between them  *)
(* may fail independently, which is a nondeterministic choice here.        *)
(***************************************************************************)
EXTENDS RdcCommon

CONSTANT StopMayFail           \* may the amd-smi calls of stop_listening fail?

ASSUME NotifConstants == StopMayFail \in BOOLEAN

VARIABLES
  gpu_evnt_notif_masks_,       \* GPU -> events recorded as listened for
  device_mask,                 \* GPU -> events the driver reports
  listened                     \* events listen() returned, not yet cached

nvars == <<gpu_evnt_notif_masks_, device_mask, listened>>

NotifInit ==
  /\ gpu_evnt_notif_masks_ = [g \in GPUs |-> {}]
  /\ device_mask = [g \in GPUs |-> {}]
  /\ listened = {}

\* The mask set_listen_events builds for a GPU out of the watched keys.
NewMask(keys, g) == {f \in NotifFields : <<g, f>> \in keys}

\* set_listen_events(keys).  A GPU whose mask would change is "skipped" (no
\* handle, no capability, init or set failed), "unrecorded" (the mask was set
\* but giving the capability back failed: the call returns there, so the GPUs
\* after it are not reached) or "recorded".
SetListenEvents(keys) ==
  LET changed == {g \in GPUs :
                    /\ NewMask(keys, g) # {}
                    /\ NewMask(keys, g) # gpu_evnt_notif_masks_[g]}
  IN  \E o \in [changed -> {"skipped", "unrecorded", "recorded"}] :
        /\ \A g, h \in changed :
             (o[g] = "unrecorded" /\ g < h) => o[h] = "skipped"
        /\ device_mask' = [g \in GPUs |->
             IF g \in changed /\ o[g] # "skipped"
             THEN NewMask(keys, g) ELSE device_mask[g]]
        /\ gpu_evnt_notif_masks_' = [g \in GPUs |->
             IF g \in changed /\ o[g] = "recorded"
             THEN NewMask(keys, g) ELSE gpu_evnt_notif_masks_[g]]
        /\ UNCHANGED listened

\* Mutant: only the record is cleared.
StopListeningRecord(gpus) ==
  /\ gpu_evnt_notif_masks_' = [g \in GPUs |->
       IF g \in gpus THEN {} ELSE gpu_evnt_notif_masks_[g]]
  /\ UNCHANGED <<device_mask, listened>>

\* stop_listening on every GPU of gpus: the driver's mask is cleared first
\* ("masked" when the stop that follows fails), and the record is cleared
\* only when the stop succeeds.
StopListening(gpus) ==
  \E o \in [gpus -> IF StopMayFail THEN {"failed", "masked", "stopped"} ELSE {"stopped"}] :
    /\ device_mask' = [g \in GPUs |->
         IF g \in gpus /\ o[g] # "failed" THEN {} ELSE device_mask[g]]
    /\ gpu_evnt_notif_masks_' = [g \in GPUs |->
         IF g \in gpus /\ o[g] = "stopped" THEN {} ELSE gpu_evnt_notif_masks_[g]]
    /\ UNCHANGED listened

\* listen() returns with events stamped now.  It blocks without any lock, so
\* what it returns is applied by a later step.  An event is keyed by the bdf
\* id of its GPU, not by the GPU's index.
Listen(now) ==
  /\ listened = {}
  /\ \E raised \in SUBSET {e \in GPUs \X NotifFields : e[2] \in device_mask[e[1]]} :
       /\ raised # {}
       /\ listened' = {[key |-> <<Bdf[e[1]], e[2]>>, ts |-> now] : e \in raised}
  /\ UNCHANGED <<gpu_evnt_notif_masks_, device_mask>>

NotifTypeOK ==
  /\ gpu_evnt_notif_masks_ \in [GPUs -> SUBSET NotifFields]
  /\ device_mask \in [GPUs -> SUBSET NotifFields]
  /\ listened \subseteq [key : {Bdf[g] : g \in GPUs} \X NotifFields, ts : Nat]
=============================================================================
