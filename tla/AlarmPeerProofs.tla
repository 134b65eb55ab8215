-------------------------- MODULE AlarmPeerProofs --------------------------
(***************************************************************************)
(* What the peers of alarmd show agrees with the queue, for every value of *)
(* the constants.                                                          *)
(***************************************************************************)
EXTENDS AlarmSafetyProofs

-----------------------------------------------------------------------------
(* Dialogs.  Three things take the dialogs of system ui away from the      *)
(* events they belong to, and are left out: clearing user data, which      *)
(* empties the queue without cancelling a dialog; a system ui that returns *)
(* before the daemon saw it gone (see the run outage); and a deleted event *)
(* that snoozes itself, whose new dialog meets the answer to the old one.  *)
DialogsOwn ==
  /\ "CUD" \notin Stimuli
  /\ ~QuickRestart \/ "SYSTEMUI" \notin Churn
  /\ \A k \in Kinds : ~Revives(k)

Asking == {S_SYSUI_REQ, S_SYSUI_ACK}

(* From here on deleted events have no dialog.                             *)
Cancelled == pc \in {"cleanup", "finish"} \/ Quiescent

(* A dialog is on the screen for an event that asks, or was deleted since  *)
(* and is going to have it cancelled.  L are dialogs this is not asked of: *)
(* none here, those that a daemon which died left behind in AlarmRestart.  *)
DialogsShown(L) ==
  \A c \in dialogs \ L :
    /\ c \in DOMAIN ev /\ Visible(ev[c])
    /\ ev[c].state \in Asking \/ (ev[c].state = S_DELETED /\ ~Cancelled)

(* Who asks has a dialog, an answer, or nobody to ask.                     *)
Asked ==
  \A c \in DOMAIN ev :
    Visible(ev[c]) /\ ev[c].state \in Asking =>
      c \in dialogs \/ (\E m \in answers : m.cookie = c) \/ ~SysuiUp

NoUi == ~SysuiUp => dialogs = {} /\ answers = {}

(* Each dialog is answered once, and its event waits for the answer.       *)
AnswersOpen(L) ==
  /\ \A m \in answers :
       m.cookie \notin L =>
         /\ m.cookie \notin dialogs
         /\ m.cookie \in DOMAIN ev => ev[m.cookie].state \in Asking \cup {S_DELETED}
  /\ \A m, n \in answers : m.cookie = n.cookie /\ m.cookie \notin L => m = n

(* No kind of an event in the queue brings it back from the dead.          *)
KindsKnown == \A c \in DOMAIN ev : ev[c].kind \in Kinds

DialogInv(L) == DialogsShown(L) /\ Asked /\ NoUi /\ AnswersOpen(L) /\ KindsKnown

LEMMA KindsStep ==
  ASSUME IInv, KindsKnown, [Next]_vars
  PROVE  KindsKnown'
<1> SUFFICES ASSUME NEW c \in DOMAIN ev' PROVE ev'[c].kind \in Kinds
  BY DEF KindsKnown
<1>1. CASE c \in DOMAIN ev /\ ev'[c].kind = ev[c].kind
  BY <1>1 DEF KindsKnown
<1>2. CASE Added(ev'[c])
  BY <1>2 DEF Added, FreshEvent
<1> QED BY <1>1, <1>2, StepEvents DEF Becomes, Handled

(* What the loop does to dialogs.                                          *)
LEMMA LoopDialogs ==
  ASSUME IInv, RethinkStep
  PROVE  /\ up' = up /\ answers' = answers
         /\ \/ /\ pc = "waitsysui" /\ SysuiUp /\ dialogs' = dialogs \cup InState(S_WAITSYSUI)
               /\ \A c \in InState(S_WAITSYSUI) :
                    /\ ev'[c].state = S_SYSUI_REQ /\ ev'[c].disabled = ev[c].disabled
               /\ pc' = "sysui_req"
            \/ pc = "waitsysui" /\ ~SysuiUp /\ dialogs' = dialogs /\ pc' = "sysui_req"
            \/ pc = "deleted" /\ dialogs' = dialogs \ InState(S_DELETED)
            \/ /\ pc \notin {"waitsysui", "deleted"} /\ dialogs' = dialogs
         /\ IF pc = "cleanup" THEN DOMAIN ev' = Kept ELSE DOMAIN ev' = DOMAIN ev
         /\ Cancelled' => pc \in {"deleted", "cleanup", "finish"}
<1>1. CASE RethinkWaitsysui
  <2> DEFINE out == [c \in DOMAIN ev |-> IF Visible(ev[c]) /\ ev[c].state = S_WAITSYSUI
                                        THEN WaitsysuiStep(ev[c]) ELSE Cell(ev[c])]
  <2>1. /\ pc = "waitsysui" /\ pc' = "sysui_req" /\ ev' = [c \in DOMAIN ev |-> out[c].e]
        /\ answers' = answers /\ up' = up
        /\ IF SysuiUp THEN dialogs' = dialogs \cup InState(S_WAITSYSUI)
           ELSE dialogs' = dialogs
    BY <1>1 DEF RethinkWaitsysui, Phase, PassOver, AddDialogs, stateVars
  <2>2. ASSUME SysuiUp, NEW c \in InState(S_WAITSYSUI)
        PROVE  ev'[c].state = S_SYSUI_REQ /\ ev'[c].disabled = ev[c].disabled
    <3>1. c \in DOMAIN ev /\ ev[c] \in Event /\ ev[c].state = S_WAITSYSUI /\ Visible(ev[c])
      BY <2>2 DEF InState, IInv, Typed, QueueOK
    <3>2. ev'[c] = WaitsysuiStep(ev[c]).e
      BY <2>1, <3>1
    <3>3. WaitsysuiStep(ev[c]).e = [ev[c] EXCEPT !.state = S_SYSUI_REQ]
      BY <2>2 DEF WaitsysuiStep, SetState, Cell, Admits, S_SYSUI_REQ, S_SYSUI_ACK, S_SYSUI_RSP
    <3> QED BY <3>1, <3>2, <3>3 DEF Event
  <2>3. DOMAIN ev' = DOMAIN ev /\ ~Cancelled'
    BY <2>1 DEF Cancelled, Quiescent
  <2> HIDE DEF out
  <2> QED BY <2>1, <2>2, <2>3
<1>2. CASE RethinkDeleted
  <2>1. pc = "deleted" /\ dialogs' = dialogs \ InState(S_DELETED) /\ answers' = answers
        /\ up' = up /\ DOMAIN ev' = DOMAIN ev
    BY <1>2 DEF RethinkDeleted, Phase, PassOver, CancelDialogs, stateVars
  <2> QED BY <2>1
<1>3. CASE RethinkCleanup
  <2>1. pc = "cleanup" /\ UNCHANGED <<dialogs, answers, up>> /\ DOMAIN ev' = Kept
    BY <1>3 DEF RethinkCleanup, stateVars, peerVars
  <2> QED BY <2>1
<1>4. CASE RethinkFinish
  <2>1. pc = "finish" /\ UNCHANGED <<dialogs, answers, up, ev>>
    BY <1>4 DEF RethinkFinish
  <2> QED BY <2>1
<1>5. ASSUME ~RethinkWaitsysui, ~RethinkDeleted, ~RethinkCleanup, ~RethinkFinish
      PROVE  /\ pc \notin {"waitsysui", "deleted", "cleanup", "finish"}
             /\ pc' \notin {"cleanup", "finish", "idle"}
             /\ UNCHANGED <<dialogs, answers, up>> /\ DOMAIN ev' = DOMAIN ev
  BY <1>5 DEF RethinkStep, RethinkNew, RethinkWaitconn, RethinkTimechange, RethinkQueued,
         RethinkMissed, RethinkPostponed, RethinkLimbo, RethinkTriggered,
         RethinkSysuiReq, RethinkSysuiAck, RethinkSysuiRsp, RethinkSnoozed, RethinkServed,
         RethinkRecurring, Phase, PassOver, stateVars, peerVars
<1>6. ASSUME ~RethinkWaitsysui, ~RethinkDeleted, ~RethinkCleanup, ~RethinkFinish
      PROVE  ~Cancelled'
  BY <1>5, <1>6 DEF Cancelled, Quiescent
<1> QED BY <1>1, <1>2, <1>3, <1>4, <1>5, <1>6

(* An event that asks goes back to waiting only when system ui left, and a *)
(* deleted one stays deleted.                                              *)
LEMMA LoopAsking ==
  ASSUME NEW L, DialogsOwn, IInv, DialogInv(L), RethinkStep, NEW c \in DOMAIN ev',
         ev[c].state \in Asking \cup {S_DELETED}
  PROVE  /\ c \in DOMAIN ev
         /\ ev[c].state = S_DELETED => ev'[c].state = S_DELETED
         /\ ev[c].state \in Asking => \/ ev'[c] = ev[c]
                                      \/ ~SysuiUp /\ ev'[c].state = S_WAITSYSUI
<1> USE DEF Asking, S_NEW, S_WAITCONN, S_QUEUED, S_MISSED, S_POSTPONED, S_LIMBO,
            S_TRIGGERED, S_WAITSYSUI, S_SYSUI_REQ, S_SYSUI_ACK, S_SYSUI_RSP, S_SNOOZED,
            S_SERVED, S_RECURRING, S_DELETED
<1>1. c \in DOMAIN ev /\ (ev'[c] = ev[c] \/ Becomes(ev[c], ev'[c]))
  BY LoopBecomes DEF LoopEvents
<1>2. ~Revives(ev[c].kind)
  BY <1>1 DEF DialogInv, KindsKnown, DialogsOwn
<1>3. ev'[c] = ev[c] \/ Moves(ev[c], ev'[c])
  BY <1>1 DEF Becomes, Shifts
<1> QED BY <1>1, <1>2, <1>3 DEF Moves

LEMMA LoopDialogInv ==
  ASSUME NEW L, DialogsOwn, IInv, DialogInv(L), RethinkStep
  PROVE  DialogInv(L)'
<1>0. /\ up' = up /\ answers' = answers
      /\ IF pc = "cleanup" THEN DOMAIN ev' = Kept ELSE DOMAIN ev' = DOMAIN ev
      /\ Cancelled' => pc \in {"deleted", "cleanup", "finish"}
  BY LoopDialogs
<1>1. \A c \in dialogs' : c \in dialogs \/ (pc = "waitsysui" /\ SysuiUp /\ c \in InState(S_WAITSYSUI))
  BY LoopDialogs
<1>2. \A c \in dialogs : c \in dialogs' \/ (pc = "deleted" /\ c \in InState(S_DELETED))
  BY LoopDialogs
<1>3. pc = "deleted" => dialogs' = dialogs \ InState(S_DELETED)
  BY LoopDialogs
<1>4. pc = "waitsysui" /\ SysuiUp =>
        /\ InState(S_WAITSYSUI) \subseteq dialogs'
        /\ \A c \in InState(S_WAITSYSUI) :
              ev'[c].state = S_SYSUI_REQ /\ ev'[c].disabled = ev[c].disabled
  BY LoopDialogs
<1>5. /\ Pos(pc) = S_DELETED => pc \in {"deleted", "cleanup"}
      /\ Pos(pc) = S_WAITSYSUI => pc = "waitsysui"
  <2> USE DEF Pos, S_NEW, S_WAITCONN, S_QUEUED, S_MISSED, S_POSTPONED, S_LIMBO,
              S_TRIGGERED, S_WAITSYSUI, S_SYSUI_REQ, S_SYSUI_ACK, S_SYSUI_RSP, S_SNOOZED,
              S_SERVED, S_RECURRING, S_DELETED, S_FINALIZED
  <2>1. pc \in Places
    BY DEF IInv, Typed, LoopOK
  <2>2. Pos(pc) = S_DELETED => pc \in {"deleted", "cleanup"}
    BY <2>1, SMTT(30) DEF Places
  <2>3. Pos(pc) = S_WAITSYSUI => pc = "waitsysui"
    BY <2>1, SMTT(30) DEF Places
  <2> QED BY <2>2, <2>3
<1>6. LoopEvents
  BY LoopBecomes
<1>7. DialogsShown(L)'
  <2> SUFFICES ASSUME NEW c \in dialogs' \ L
               PROVE  /\ c \in DOMAIN ev' /\ Visible(ev[c])'
                      /\ ev'[c].state \in Asking \/ (ev'[c].state = S_DELETED /\ ~Cancelled')
    BY DEF DialogsShown
  <2>1. CASE c \in dialogs /\ ev[c].state \in Asking
    <3>1. c \in DOMAIN ev /\ Visible(ev[c]) /\ SysuiUp
      BY <2>1 DEF DialogInv, DialogsShown, NoUi
    <3>2. c \in DOMAIN ev'
      BY <1>0, <2>1, <3>1 DEF Kept, Asking, S_SYSUI_REQ, S_SYSUI_ACK, S_DELETED, S_FINALIZED
    <3>3. ev'[c] = ev[c]
      BY <2>1, <3>1, <3>2, LoopAsking
    <3> QED BY <2>1, <3>1, <3>2, <3>3 DEF Visible
  <2>2. CASE c \in dialogs /\ ev[c].state \notin Asking
    <3>1. c \in DOMAIN ev /\ Visible(ev[c]) /\ ev[c].state = S_DELETED /\ ~Cancelled
      BY <2>2 DEF DialogInv, DialogsShown
    <3>2. pc \notin {"cleanup", "finish"}
      BY <3>1 DEF Cancelled
    <3>3. pc # "deleted"
      BY <1>3, <3>1 DEF InState
    <3>4. c \in DOMAIN ev' /\ ~Cancelled'
      BY <1>0, <3>1, <3>2, <3>3
    <3>5. ev'[c] = ev[c]
      BY <1>5, <1>6, <3>1, <3>2, <3>3, <3>4 DEF LoopEvents
    <3> QED BY <3>1, <3>4, <3>5 DEF Visible
  <2>3. CASE c \notin dialogs
    <3>1. pc = "waitsysui" /\ SysuiUp /\ c \in InState(S_WAITSYSUI)
      BY <1>1, <2>3
    <3>2. c \in DOMAIN ev' /\ Visible(ev[c])
      BY <1>0, <3>1 DEF InState
    <3> QED BY <1>4, <3>1, <3>2 DEF Visible, Asking
  <2> QED BY <2>1, <2>2, <2>3
<1>8. Asked'
  <2> SUFFICES ASSUME NEW c \in DOMAIN ev', Visible(ev'[c]), ev'[c].state \in Asking
               PROVE  c \in dialogs' \/ (\E m \in answers' : m.cookie = c) \/ ~SysuiUp'
    BY DEF Asked
  <2>1. c \in DOMAIN ev
    BY <1>6 DEF LoopEvents
  <2>2. CASE ev'[c] = ev[c]
    <3>1. c \in dialogs \/ (\E m \in answers : m.cookie = c) \/ ~SysuiUp
      BY <2>1, <2>2 DEF DialogInv, Asked
    <3>2. c \notin InState(S_DELETED)
      BY <2>2 DEF InState, Asking, S_SYSUI_REQ, S_SYSUI_ACK, S_DELETED
    <3> QED BY <1>0, <1>2, <3>1, <3>2 DEF SysuiUp
  <2>3. CASE ev'[c] # ev[c]
    <3>1. Visible(ev[c]) /\ ev[c].state = Pos(pc) /\ Becomes(ev[c], ev'[c])
      BY <1>6, <2>3 DEF LoopEvents
    <3>2. ~Shifts(ev[c], ev'[c])
      BY DEF Shifts, Asking, S_NEW, S_SYSUI_REQ, S_SYSUI_ACK
    <3>3. Moves(ev[c], ev'[c])
      BY <2>3, <3>1, <3>2 DEF Becomes
    <3>4. ev[c].state = S_WAITSYSUI /\ SysuiUp
      BY <3>3 DEF Moves, Asking, S_NEW, S_WAITCONN, S_QUEUED, S_MISSED, S_POSTPONED,
            S_LIMBO, S_TRIGGERED, S_WAITSYSUI, S_SYSUI_REQ, S_SYSUI_ACK, S_SYSUI_RSP,
            S_SNOOZED, S_SERVED, S_RECURRING, S_DELETED
    <3> QED BY <1>4, <1>5, <2>1, <3>1, <3>4 DEF InState
  <2> QED BY <2>2, <2>3
<1>9. NoUi'
  BY <1>0, <1>1 DEF DialogInv, NoUi, SysuiUp
<1>10. AnswersOpen(L)'
  <2>1. ASSUME NEW m \in answers, m.cookie \notin L
        PROVE  /\ m.cookie \notin dialogs'
               /\ m.cookie \in DOMAIN ev' => ev'[m.cookie].state \in Asking \cup {S_DELETED}
    <3>1. m.cookie \in DOMAIN ev => ev[m.cookie].state \in Asking \cup {S_DELETED}
      BY <2>1 DEF DialogInv, AnswersOpen
    <3>2. m.cookie \notin dialogs /\ SysuiUp
      BY <2>1 DEF DialogInv, AnswersOpen, NoUi
    <3>3. m.cookie \notin InState(S_WAITSYSUI)
      BY <3>1 DEF InState, Asking, S_WAITSYSUI, S_SYSUI_REQ, S_SYSUI_ACK, S_DELETED
    <3>4. ASSUME m.cookie \in DOMAIN ev' PROVE ev'[m.cookie].state \in Asking \cup {S_DELETED}
      <4>1. m.cookie \in DOMAIN ev
        BY <1>6, <3>4 DEF LoopEvents
      <4> QED BY <3>1, <3>2, <3>4, <4>1, LoopAsking
    <3> QED BY <1>1, <3>2, <3>3, <3>4
  <2>2. \A m, n \in answers : m.cookie = n.cookie /\ m.cookie \notin L => m = n
    BY DEF DialogInv, AnswersOpen
  <2> QED BY <1>0, <2>1, <2>2 DEF AnswersOpen
<1>11. KindsKnown'
  BY KindsStep, NextSplit DEF DialogInv
<1> QED BY <1>7, <1>8, <1>9, <1>10, <1>11 DEF DialogInv

(* What the handlers do to dialogs.                                        *)
LEMMA QuietDialogs ==
  ASSUME NEW L, DialogInv(L), UNCHANGED <<ev, dialogs, answers>>, SysuiUp' <=> SysuiUp,
         Cancelled' => Cancelled
  PROVE  DialogInv(L)'
<1>1. DialogsShown(L)'
  BY DEF DialogInv, DialogsShown, Visible
<1>2. Asked'
  BY DEF DialogInv, Asked, Visible
<1>3. NoUi'
  BY DEF DialogInv, NoUi
<1>4. AnswersOpen(L)' /\ KindsKnown'
  BY DEF DialogInv, AnswersOpen, KindsKnown
<1> QED BY <1>1, <1>2, <1>3, <1>4 DEF DialogInv

LEMMA RequestDialogs ==
  ASSUME NEW L, IInv, HandedOutBut(L), DialogInv(L), KindsKnown',
         UNCHANGED <<dialogs, answers, up>>, ~Cancelled',
         DOMAIN ev \subseteq DOMAIN ev',
         \A c \in DOMAIN ev :
           /\ ev'[c].disabled = ev[c].disabled
           /\ \/ ev'[c].state \in {ev[c].state, S_DELETED}
              \/ ev[c].state = S_SYSUI_REQ /\ ev'[c].state = S_SYSUI_ACK,
         \A c \in DOMAIN ev' \ DOMAIN ev : c = lastCookie + 1 /\ ev'[c].state = S_NEW
  PROVE  DialogInv(L)'
<1> USE DEF Asking, S_NEW, S_SYSUI_REQ, S_SYSUI_ACK, S_DELETED
<1>1. DialogsShown(L)'
  BY DEF DialogInv, DialogsShown, Visible
<1>2. Asked'
  <2> SUFFICES ASSUME NEW c \in DOMAIN ev', Visible(ev'[c]), ev'[c].state \in Asking
               PROVE  c \in dialogs \/ (\E m \in answers : m.cookie = c) \/ ~SysuiUp
    BY DEF Asked, SysuiUp
  <2>1. c \in DOMAIN ev /\ Visible(ev[c]) /\ ev[c].state \in Asking
    BY DEF Visible
  <2> QED BY <2>1 DEF DialogInv, Asked
<1>3. NoUi'
  BY DEF DialogInv, NoUi, SysuiUp
<1>4. AnswersOpen(L)'
  <2>1. ASSUME NEW m \in answers, m.cookie \notin L, m.cookie \in DOMAIN ev'
        PROVE  ev'[m.cookie].state \in Asking \cup {S_DELETED}
    <3>1. m.cookie \in Int /\ m.cookie <= lastCookie /\ lastCookie \in Int
      BY <2>1 DEF IInv, Typed, PeersOK, QueueOK, HandedOutBut
    <3>2. m.cookie \in DOMAIN ev
      BY <2>1, <3>1
    <3> QED BY <2>1, <3>2 DEF DialogInv, AnswersOpen
  <2> QED BY <2>1 DEF DialogInv, AnswersOpen
<1> QED BY <1>1, <1>2, <1>3, <1>4 DEF DialogInv

LEMMA InsertKeeps ==
  ASSUME IInv, NEW q, NEW k, Insert(q, k), DOMAIN q = DOMAIN ev
  PROVE  /\ DOMAIN ev \subseteq DOMAIN ev'
         /\ \A c \in DOMAIN ev : ev'[c] = q[c]
         /\ \A c \in DOMAIN ev' \ DOMAIN ev :
              c = lastCookie + 1 /\ ev'[c].state = S_NEW
<1> DEFINE t == InitialTrigger(k, Wall, tzCurr)
<1>1. CASE t >= Wall
  <2>1. ev' = [c \in DOMAIN q \cup {lastCookie + 1} |->
                 IF c = lastCookie + 1 THEN FreshEvent(k, t) ELSE q[c]]
    BY <1>1 DEF Insert
  <2>2. DOMAIN ev \subseteq 1 .. lastCookie /\ lastCookie \in Int
    BY DEF IInv, Typed, QueueOK
  <2>3. \A c \in DOMAIN ev : c # lastCookie + 1
    BY <2>2
  <2>4. FreshEvent(k, t).state = S_NEW
    BY DEF FreshEvent
  <2> HIDE DEF t
  <2> QED BY <2>1, <2>3, <2>4
<1>2. CASE ~(t >= Wall)
  BY <1>2 DEF Insert
<1> QED BY <1>1, <1>2

LEMMA AskedToRethink ==
  ASSUME Typed, RethinkRequest
  PROVE  pc = "idle" /\ pc' = pc => ~Cancelled'
BY RequestAsks DEF Cancelled, Quiescent

LEMMA ClientDialogs ==
  ASSUME NEW L, DialogsOwn, IInv, HandedOutBut(L), DialogInv(L), KindsKnown', ClientStep
  PROVE  DialogInv(L)'
<1>0. Typed /\ QueueOK /\ pc = "idle" /\ pc' = pc
  BY HandlersWait
     DEF HandlerStep, IInv, Typed, ClientStep, EventAdd, EventUpdate, EventDel, SnoozeSet,
         ClearUserData, RestoreFactorySettings, SaveData, HandlerFrame
<1>1. /\ DOMAIN ev = DOMAIN ev /\ \A c \in DOMAIN ev : ev[c].disabled = ev[c].disabled
      /\ \A d : DOMAIN Deleting(d) = DOMAIN ev
      /\ \A d : \A c \in DOMAIN ev :
           /\ Deleting(d)[c].disabled = ev[c].disabled
           /\ Deleting(d)[c].state \in {ev[c].state, S_DELETED}
  BY <1>0, DeletingOk, DeletingEvents DEF Handled
<1>2. ASSUME NEW k \in Kinds, EventAdd(k) PROVE DialogInv(L)'
  <2>1. /\ Insert(ev, k) /\ RethinkRequest /\ UNCHANGED <<dialogs, answers, up>>
    BY <1>2 DEF EventAdd, peerVars, stateVars
  <2>2. ~Cancelled'
    BY <1>0, <2>1, AskedToRethink
  <2> QED BY <2>1, <2>2, InsertKeeps, RequestDialogs
<1>3. ASSUME NEW k \in Kinds, NEW d, EventUpdate(d, k) PROVE DialogInv(L)'
  <2>1. /\ Insert(Deleting(d), k) /\ RethinkRequest
        /\ UNCHANGED <<dialogs, answers, up>>
    BY <1>3 DEF EventUpdate, peerVars, stateVars
  <2>2. ~Cancelled'
    BY <1>0, <2>1, AskedToRethink
  <2>3. /\ DOMAIN ev \subseteq DOMAIN ev'
        /\ \A c \in DOMAIN ev : ev'[c] = Deleting(d)[c]
        /\ \A c \in DOMAIN ev' \ DOMAIN ev :
             c = lastCookie + 1 /\ ev'[c].state = S_NEW
    BY <1>1, <2>1, InsertKeeps
  <2> QED BY <1>1, <2>1, <2>2, <2>3, RequestDialogs
<1>4. ASSUME NEW d, EventDel(d) PROVE DialogInv(L)'
  <2>1. /\ ev' = Deleting(d) /\ RethinkRequest /\ UNCHANGED <<dialogs, answers, up>>
    BY <1>4 DEF EventDel, peerVars, stateVars
  <2>2. ~Cancelled'
    BY <1>0, <2>1, AskedToRethink
  <2> QED BY <1>1, <2>1, <2>2, RequestDialogs
<1>5. ~ClearUserData
  BY DEF ClearUserData, May, DialogsOwn
<1>6. ASSUME (\E v \in SnoozeVals : SnoozeSet(v)) \/ RestoreFactorySettings \/ SaveData
      PROVE  DialogInv(L)'
  <2>1. UNCHANGED <<ev, dialogs, answers, up, pc, rethink>>
    BY <1>6 DEF SnoozeSet, RestoreFactorySettings, SaveData, stateVars, peerVars
  <2>2. SysuiUp' <=> SysuiUp
    BY <2>1 DEF SysuiUp
  <2>3. Cancelled' => Cancelled
    BY <2>1 DEF Cancelled, Quiescent
  <2> QED BY <2>1, <2>2, <2>3, QuietDialogs
<1> QED BY <1>2, <1>3, <1>4, <1>5, <1>6 DEF ClientStep

(* An answer taken from the bus closes its dialog and goes to its event    *)
(* only if the event still asks.                                           *)
LEMMA AckedEvents ==
  ASSUME IInv, NEW m \in answers, EventAck(m)
  PROVE  /\ DOMAIN ev' = DOMAIN ev
         /\ \A d \in DOMAIN ev : d # m.cookie => ev'[d] = ev[d]
         /\ \A d \in DOMAIN ev : d = m.cookie =>
              /\ ev'[d].disabled = ev[d].disabled
              /\ ev'[d].state \in {ev[d].state, S_SYSUI_RSP}
              /\ ev[d].state \in Asking => ev'[d].state = S_SYSUI_RSP
<1> DEFINE q == EventInState(m.cookie, S_SYSUI_RSP)
<1>0. QueueOK /\ m.button \in Int
  BY EnvironmentConstants DEF IInv, Typed, PeersOK
<1>1. ev' = IF m.cookie \in DOMAIN q
            THEN [q EXCEPT ![m.cookie].response = m.button] ELSE q
  BY DEF EventAck
<1>2. DOMAIN q = DOMAIN ev /\ q \in [DOMAIN ev -> Event]
  BY <1>0, EventInStateOk DEF States, S_NEW, S_SYSUI_RSP, S_FINALIZED
<1>3. \A d \in DOMAIN ev :
        /\ d # m.cookie => q[d] = ev[d]
        /\ q[d].disabled = ev[d].disabled /\ q[d].state \in {ev[d].state, S_SYSUI_RSP}
        /\ d = m.cookie /\ ev[d].state \in Asking => q[d].state = S_SYSUI_RSP
  <2> TAKE d \in DOMAIN ev
  <2>1. S_SYSUI_RSP \in {S_SYSUI_ACK, S_SYSUI_RSP}
    OBVIOUS
  <2> QED BY <1>0, <2>1, EventInStateEvents DEF Handled, Asking
<1> HIDE DEF q
<1>4. DOMAIN ev' = DOMAIN ev
  BY <1>1, <1>2
<1>5. ASSUME NEW d \in DOMAIN ev, d # m.cookie PROVE ev'[d] = ev[d]
  BY <1>1, <1>2, <1>3, <1>5
<1>6. ASSUME NEW d \in DOMAIN ev, d = m.cookie
      PROVE  ev'[d].disabled = q[d].disabled /\ ev'[d].state = q[d].state
  <2>1. ev'[d] = [q[d] EXCEPT !.response = m.button] /\ q[d] \in Event
    BY <1>1, <1>2, <1>6
  <2> QED BY <2>1 DEF Event
<1> QED BY <1>3, <1>4, <1>5, <1>6

LEMMA UserDialogs ==
  ASSUME NEW L, IInv, HandedOutBut(L), DialogInv(L), KindsKnown', UserStep
  PROVE  DialogInv(L)'
<1> USE DEF Asking, S_SYSUI_REQ, S_SYSUI_ACK, S_SYSUI_RSP, S_DELETED
<1>0. Typed /\ QueueOK /\ pc = "idle" /\ pc' = pc
  BY HandlersWait
     DEF HandlerStep, IInv, Typed, UserStep, QueueAck, UserAnswers, EventAck, HandlerFrame
<1>1. ASSUME NEW d \in dialogs, QueueAck(d) PROVE DialogInv(L)'
  <2>1. /\ ev' = EventInState(d, S_SYSUI_ACK) /\ RethinkRequest
        /\ UNCHANGED <<dialogs, answers, up>>
    BY <1>1 DEF QueueAck, peerVars, stateVars
  <2>2. ~Cancelled'
    BY <1>0, <2>1, AskedToRethink
  <2>3. DOMAIN ev' = DOMAIN ev
    BY <1>0, <2>1, EventInStateOk DEF States, S_NEW, S_FINALIZED
  <2>4. ASSUME NEW c \in DOMAIN ev
        PROVE  /\ ev'[c].disabled = ev[c].disabled
               /\ \/ ev'[c].state \in {ev[c].state, S_DELETED}
                  \/ ev[c].state = S_SYSUI_REQ /\ ev'[c].state = S_SYSUI_ACK
    <3>1. Handled(ev[c], ev'[c]) /\ ev'[c].state \in {ev[c].state, S_SYSUI_ACK}
      BY <1>0, <2>1, EventInStateEvents
    <3> QED BY <3>1 DEF Handled
  <2> QED BY <2>1, <2>2, <2>3, <2>4, RequestDialogs
<1>2. ASSUME NEW d \in dialogs, NEW b, NEW p, UserAnswers(d, b, p) PROVE DialogInv(L)'
  <2> DEFINE new == [cookie |-> d, button |-> b, powerup |-> p]
  <2>1. /\ dialogs' = dialogs \ {d} /\ answers' = answers \cup {new}
        /\ UNCHANGED <<ev, up, pc, rethink>> /\ new.cookie = d
    BY <1>2 DEF UserAnswers, stateVars, timerVars
  <2> HIDE DEF new
  <2>2. (Cancelled' <=> Cancelled) /\ (SysuiUp' <=> SysuiUp)
    BY <2>1 DEF Cancelled, Quiescent, SysuiUp
  <2>3. DialogsShown(L)'
    BY <2>1, <2>2 DEF DialogInv, DialogsShown, Visible
  <2>4. Asked'
    BY <2>1, <2>2 DEF DialogInv, Asked, Visible
  <2>5. NoUi'
    BY <2>1, <2>2 DEF DialogInv, NoUi
  <2>6. AnswersOpen(L)'
    <3>1. d \notin L => d \in DOMAIN ev /\ ev[d].state \in Asking \cup {S_DELETED}
      BY DEF DialogInv, DialogsShown
    <3>2. d \notin L => \A m \in answers : m.cookie # d
      BY DEF DialogInv, AnswersOpen
    <3> QED BY <2>1, <3>1, <3>2 DEF DialogInv, AnswersOpen
  <2> QED BY <2>3, <2>4, <2>5, <2>6 DEF DialogInv
<1>3. ASSUME NEW m \in answers, EventAck(m) PROVE DialogInv(L)'
  <2>1. /\ RethinkRequest /\ UNCHANGED <<dialogs, up>> /\ answers' = answers \ {m}
    BY <1>3 DEF EventAck
  <2>2. ~Cancelled' /\ (SysuiUp' <=> SysuiUp)
    BY <1>0, <2>1, AskedToRethink DEF SysuiUp
  <2>3. /\ DOMAIN ev' = DOMAIN ev
        /\ \A d \in DOMAIN ev : d # m.cookie => ev'[d] = ev[d]
        /\ \A d \in DOMAIN ev : d = m.cookie =>
             /\ ev'[d].disabled = ev[d].disabled
             /\ ev'[d].state \in {ev[d].state, S_SYSUI_RSP}
             /\ ev[d].state \in Asking => ev'[d].state = S_SYSUI_RSP
    BY <1>3, AckedEvents
  <2>4. /\ m.cookie \notin L => m.cookie \notin dialogs
        /\ \A n \in answers \ {m} : n.cookie \notin L => n.cookie # m.cookie
    BY DEF DialogInv, AnswersOpen
  <2>5. DialogsShown(L)'
    BY <2>1, <2>2, <2>3, <2>4 DEF DialogInv, DialogsShown, Visible
  <2>6. Asked'
    <3> SUFFICES ASSUME NEW c \in DOMAIN ev', Visible(ev'[c]), ev'[c].state \in Asking
                 PROVE  c \in dialogs \/ (\E n \in answers \ {m} : n.cookie = c) \/ ~SysuiUp
      BY <2>1, <2>2 DEF Asked
    <3>1. c \in DOMAIN ev /\ c # m.cookie
      BY <2>3
    <3>2. ev'[c] = ev[c]
      BY <2>3, <3>1
    <3> QED BY <3>1, <3>2 DEF DialogInv, Asked
  <2>7. NoUi'
    BY <2>1, <2>2 DEF DialogInv, NoUi
  <2>8. AnswersOpen(L)'
    BY <2>1, <2>3, <2>4 DEF DialogInv, AnswersOpen
  <2> QED BY <2>5, <2>6, <2>7, <2>8 DEF DialogInv
<1> QED BY <1>1, <1>2, <1>3 DEF UserStep

(* System ui comes and goes.                                               *)
LEMMA SignalDialogs ==
  ASSUME NEW L, DialogsOwn, IInv, DialogInv(L), KindsKnown', SignalStep
  PROVE  DialogInv(L)'
<1>0. Typed /\ pc = "idle" /\ pc' = pc /\ ev' = ev
  BY HandlersWait
     DEF HandlerStep, IInv, SignalStep, NameLost, NameGained, InitDone, HildonReady, HomeReady,
         IcdStatus, TimeChange, LimboFrame, HandlerFrame
<1>1. ASSUME UNCHANGED <<dialogs, answers, up>>,
             rethink' = rethink \/ (\E f, u, d : SetState3(f, u, d))
      PROVE  DialogInv(L)'
  <2>1. SysuiUp' <=> SysuiUp
    BY <1>1 DEF SysuiUp
  <2>2. Cancelled' => Cancelled
    BY <1>0, <1>1, RequestAsks DEF Cancelled, Quiescent
  <2> QED BY <1>0, <1>1, <2>1, <2>2, QuietDialogs
<1>2. ASSUME NEW s, s # "SYSTEMUI", NameLost(s) \/ NameGained(s) PROVE DialogInv(L)'
  <2>1. /\ UNCHANGED <<dialogs, answers>> /\ (\E f, u, d : SetState3(f, u, d))
        /\ (SysuiUp' <=> SysuiUp)
    BY <1>2 DEF NameLost, NameGained, peerVars, SetState3, SysuiUp
  <2>2. Cancelled' => Cancelled
    BY <1>0, <2>1, RequestAsks DEF Cancelled, Quiescent
  <2> QED BY <1>0, <2>1, <2>2, QuietDialogs
<1>3. ASSUME NameLost("SYSTEMUI") PROVE DialogInv(L)'
  <2>1. dialogs' = {} /\ answers' = {} /\ ~SysuiUp'
    BY <1>3 DEF NameLost, SetState3, SysuiUp
  <2> QED BY <2>1 DEF DialogInv, DialogsShown, Asked, NoUi, AnswersOpen
<1>4. ASSUME NameGained("SYSTEMUI") PROVE DialogInv(L)'
  <2>1. /\ ~SysuiUp /\ SysuiUp' /\ Quiescent /\ UNCHANGED <<dialogs, answers>>
    BY <1>0, <1>4 DEF NameGained, SetState3, SysuiUp, peerVars, DialogsOwn, Quiescent
  <2>2. dialogs' = {} /\ answers' = {}
    BY <2>1 DEF DialogInv, NoUi
  <2>3. \A c \in DOMAIN ev : Visible(ev[c]) => ev[c].state \notin Asking
    <3> SUFFICES ASSUME NEW c \in DOMAIN ev, Visible(ev[c]), ev[c].state \in Asking
                 PROVE  FALSE
      OBVIOUS
    <3>1. Settled(ev[c])
      BY <2>1 DEF IInv, NoWorkLeftBehind
    <3> QED BY <2>1, <3>1 DEF Settled, Asking, S_WAITCONN, S_QUEUED, S_LIMBO, S_WAITSYSUI,
                              S_SYSUI_REQ, S_SYSUI_ACK
  <2>4. Asked'
    BY <1>0, <2>3 DEF Asked, Visible
  <2> QED BY <2>1, <2>2, <2>4 DEF DialogInv, DialogsShown, NoUi, AnswersOpen
<1>5. ASSUME LimboDisabled, LimboFrame
      PROVE  /\ UNCHANGED <<dialogs, answers, up>>
             /\ rethink' = rethink \/ (\E f, u, d : SetState3(f, u, d))
  BY <1>5 DEF LimboDisabled, LimboFrame, SetFlags, SetState3, peerVars
<1>6. ASSUME HomeReady, WaitState # "home"
      PROVE  UNCHANGED <<dialogs, answers, up, rethink>>
  BY <1>6 DEF HomeReady, LimboFrame, peerVars, stateVars
<1>7. ASSUME NEW b, IcdStatus \/ TimeChange(b)
      PROVE  /\ UNCHANGED <<dialogs, answers, up>>
             /\ rethink' = rethink \/ (\E f, u, d : SetState3(f, u, d))
  BY <1>7 DEF IcdStatus, TimeChange, SetFlags, SetState3, peerVars
<1>8. InitDone \/ HildonReady \/ HomeReady => DialogInv(L)'
  BY <1>1, <1>5, <1>6 DEF InitDone, HildonReady, HomeReady
<1>9. ASSUME NEW s, NameLost(s) \/ NameGained(s) PROVE DialogInv(L)'
  BY <1>2, <1>3, <1>4, <1>9
<1>10. ASSUME NEW b, IcdStatus \/ TimeChange(b) PROVE DialogInv(L)'
  BY <1>1, <1>7, <1>10
<1> QED BY <1>8, <1>9, <1>10 DEF SignalStep

(* The other timers and the clocks leave them alone.                       *)
LEMMA TimerDialogs ==
  ASSUME NEW L, IInv, DialogInv(L), TimerStep \/ ClockStep
  PROVE  DialogInv(L)'
<1>0. Typed
  BY DEF IInv
<1>1. UNCHANGED <<ev, dialogs, answers, up>>
  <2>1. TimerStep => UNCHANGED <<ev, dialogs, answers, up>>
    BY DEF TimerStep, RethinkUnstable, RethinkStart, WakeupFires, SaveFires, LimboTimeout,
           LimboDisabled, SetFlags, SetState3, LimboFrame, statusVars, peerVars, stateVars
  <2>2. ClockStep => UNCHANGED <<ev, dialogs, answers, up>>
    BY DEF ClockStep, Tick, ClockJump, ZoneChange, ClockFrame, peerVars, stateVars
  <2> QED BY <2>1, <2>2
<1>2. Cancelled' => Cancelled
  <2>1. CASE RethinkStart
    BY <2>1 DEF RethinkStart, Cancelled, Quiescent
  <2>2. CASE RethinkUnstable
    <3>1. pc = "idle" /\ pc' = pc /\ rethink' = mono + 1 /\ mono \in Nat
      BY <1>0, <2>2 DEF RethinkUnstable, Typed, ClocksOK
    <3>2. rethink' # Never
      BY <3>1 DEF Never
    <3> QED BY <3>1, <3>2 DEF Cancelled, Quiescent
  <2>3. CASE WakeupFires
    BY <1>0, <2>3, AskedToRethink DEF WakeupFires
  <2>4. CASE LimboTimeout
    <3>1. pc = "idle" /\ pc' = pc /\ (\E f, u, d : SetState3(f, u, d))
      BY <2>4 DEF LimboTimeout, LimboDisabled, LimboFrame, SetFlags
    <3> QED BY <1>0, <3>1, RequestAsks DEF Cancelled, Quiescent
  <2>5. CASE SaveFires \/ ClockStep
    <3>1. UNCHANGED <<pc, rethink>>
      BY <2>5 DEF SaveFires, ClockStep, Tick, ClockJump, ZoneChange, ClockFrame, timerVars
    <3> QED BY <3>1 DEF Cancelled, Quiescent
  <2> QED BY <2>1, <2>2, <2>3, <2>4, <2>5 DEF TimerStep
<1> QED BY <1>1, <1>2, QuietDialogs DEF SysuiUp

LEMMA DialogStep ==
  ASSUME DialogsOwn, NEW L
  PROVE  IInv /\ HandedOutBut(L) /\ DialogInv(L) /\ [Next]_vars => DialogInv(L)'
<1> SUFFICES ASSUME IInv, HandedOutBut(L), DialogInv(L), [Next]_vars PROVE DialogInv(L)'
  OBVIOUS
<1>1. KindsKnown'
  BY KindsStep DEF DialogInv
<1>2. CASE UNCHANGED vars
  BY <1>2, QuietDialogs DEF vars, stateVars, peerVars, timerVars, SysuiUp, Cancelled, Quiescent
<1>3. CASE RethinkStep
  BY <1>3, LoopDialogInv
<1>4. CASE TimerStep \/ ClockStep
  BY <1>4, TimerDialogs
<1>5. CASE ClientStep
  BY <1>1, <1>5, ClientDialogs
<1>6. CASE UserStep
  BY <1>1, <1>6, UserDialogs
<1>7. CASE SignalStep
  BY <1>1, <1>7, SignalDialogs
<1> QED BY <1>2, <1>3, <1>4, <1>5, <1>6, <1>7 DEF Next

Asks(c) == c \in InState(S_SYSUI_REQ) \cup InState(S_SYSUI_ACK)

LEMMA MatchAtRest ==
  ASSUME NEW L, IInv, DialogInv(L), Quiescent
  PROVE  /\ \A c : Asks(c) => c \in dialogs \cup {m.cookie : m \in answers}
         /\ \A c \in dialogs \ L : Asks(c)
<1>1. ASSUME NEW c, Asks(c)
      PROVE  c \in dialogs \cup {m.cookie : m \in answers}
  <2>1. c \in DOMAIN ev /\ Visible(ev[c]) /\ ev[c].state \in Asking
    BY <1>1 DEF Asks, InState, Asking
  <2>2. Settled(ev[c])
    BY <2>1 DEF IInv, NoWorkLeftBehind
  <2>3. SysuiUp
    BY <2>1, <2>2 DEF Settled, Asking, S_WAITCONN, S_QUEUED, S_LIMBO, S_WAITSYSUI,
                      S_SYSUI_REQ, S_SYSUI_ACK
  <2> QED BY <2>1, <2>3 DEF DialogInv, Asked
<1>2. ASSUME NEW c \in dialogs \ L
      PROVE  Asks(c)
  BY <1>2 DEF DialogInv, DialogsShown, Cancelled, Asking, Asks, InState
<1> QED BY <1>1, <1>2

(* System ui and the queue agree whenever the daemon rests, whatever mix   *)
(* of acknowledgements, answers, deletions, updates, snoozes and restarts  *)
(* of system ui went before.                                               *)
THEOREM DialogsAgree ==
  ASSUME DialogsOwn
  PROVE  Spec => []DialogsMatch
<1>1. Init => DialogInv({})
  BY DEF Init, NoEvents, DialogInv, DialogsShown, Asked, NoUi, AnswersOpen, KindsKnown
<1>2. IInv /\ HandedOut /\ DialogInv({}) /\ [Next]_vars => DialogInv({})'
  BY DialogStep DEF HandedOut, HandedOutBut
<1>3. IInv /\ DialogInv({}) => DialogsMatch
  BY MatchAtRest DEF DialogsMatch, Asks
<1> QED BY <1>1, <1>2, <1>3, AlwaysHandedOut, PTL DEF Spec

-----------------------------------------------------------------------------
(* The status of the queue.                                                *)

Iconed == {c \in Waiting : Needs(ev[c], "SHOW_ICON")}

(* Who left the bus is marked as having been down until it is synchronised. *)
DownNoted == Services \ up \subseteq dn

(* A listener that was up all along holds what was broadcast last, unless  *)
(* that is going to be broadcast again in any case.                        *)
Told ==
  \A s \in (Listeners \cap up) \ dn : views[s] = qsPrev \/ qsPrev.alarms = -1

IconTold ==
  "STATUSBAR" \in up \ dn => iconsPrev >= 0 /\ (iconShown <=> iconsPrev > 0)

(* What a pass computed from the queued events stays true to its end.      *)
TimesFound(q) == /\ Lowest(TimesOf("desktop"), q.desktop)
                 /\ Lowest(TimesOf("actdead"), q.actdead)
                 /\ Lowest(TimesOf("no_boot"), q.no_boot)

Computed == pc \in AfterQueued => TimesFound(qs) /\ icons = Cardinality(Iconed)

StatusInv == DownNoted /\ Told /\ IconTold /\ Computed /\ StatusFresh

(* The events that wait, and nothing else of the queue, make the status.   *)
LEMMA WaitingKept ==
  ASSUME UNCHANGED now, "CONNECTED" \in flags' <=> "CONNECTED" \in flags,
         \A c \in Waiting : c \in DOMAIN ev' /\ ev'[c] = ev[c],
         \A c \in InState(S_QUEUED)' : c \in InState(S_QUEUED) /\ ev'[c] = ev[c]
  PROVE  /\ Waiting' = Waiting /\ Iconed' = Iconed
         /\ \A b : TimesOf(b)' = TimesOf(b)
         /\ \A q : TimesFound(q)' <=> TimesFound(q)
<1>1. ASSUME NEW c \in Waiting PROVE c \in Waiting'
  BY <1>1 DEF Waiting, InState, Visible, Offline, Needs, Connected
<1>2. ASSUME NEW c \in Waiting' PROVE c \in Waiting
  BY <1>2 DEF Waiting, Offline, Needs, Connected
<1>3. Waiting' = Waiting
  BY <1>1, <1>2
<1>4. Iconed' = Iconed
  BY <1>3 DEF Iconed, Needs
<1>5. ASSUME NEW b PROVE TimesOf(b)' = TimesOf(b)
  <2>1. \A c \in Waiting : Boots(c)' = Boots(c)
    BY DEF Boots, Needs
  <2> QED BY <1>3, <2>1 DEF TimesOf
<1>6. \A q : TimesFound(q)' <=> TimesFound(q)
  BY <1>5 DEF TimesFound, Lowest
<1> QED BY <1>3, <1>4, <1>5, <1>6

LEMMA QueuedWaiting ==
  ASSUME IInv, RethinkQueued
  PROVE  /\ \A c \in Waiting : c \in DOMAIN ev' /\ ev'[c] = ev[c]
         /\ \A c \in InState(S_QUEUED)' : c \in InState(S_QUEUED) /\ ev'[c] = ev[c]
<1>0. /\ \A c \in DOMAIN ev : ev[c] \in Event
      /\ DOMAIN ev' = DOMAIN ev
      /\ \A c \in DOMAIN ev :
           ev'[c] = (IF Visible(ev[c]) /\ ev[c].state = S_QUEUED
                     THEN QueuedStep(ev[c]) ELSE Cell(ev[c])).e
  BY DEF IInv, Typed, QueueOK, RethinkQueued, PassOver
<1>1. ASSUME NEW c \in Waiting PROVE c \in DOMAIN ev' /\ ev'[c] = ev[c]
  <2>1. c \in DOMAIN ev /\ Visible(ev[c]) /\ ev[c].state = S_QUEUED
    BY DEF Waiting, InState
  <2>2. QueuedStep(ev[c]) = Cell(ev[c])
    BY DEF QueuedStep, Waiting
  <2> QED BY <1>0, <2>1, <2>2, CellKeeps
<1>2. ASSUME NEW c \in InState(S_QUEUED)'
      PROVE  c \in InState(S_QUEUED) /\ ev'[c] = ev[c]
  <2>1. c \in DOMAIN ev /\ ev'[c].state = S_QUEUED /\ Visible(ev'[c])
    BY <1>0 DEF InState, Visible
  <2>2. Visible(ev[c]) /\ ev[c].state = S_QUEUED
    BY <1>0, <2>1, CellKeeps
  <2>3. Becomes(ev[c], ev'[c])
    BY <1>0, <2>1, <2>2, QueuedBecomes
  <2>4. ev'[c] = ev[c]
    BY <2>1, <2>2, <2>3 DEF Becomes, Moves, Shifts, S_NEW, S_WAITCONN, S_QUEUED, S_MISSED,
        S_POSTPONED, S_LIMBO, S_TRIGGERED, S_WAITSYSUI, S_SYSUI_REQ, S_SYSUI_ACK,
        S_SYSUI_RSP, S_SNOOZED, S_SERVED, S_RECURRING, S_DELETED
  <2> QED BY <2>1, <2>2, <2>4 DEF InState
<1> QED BY <1>1, <1>2

(* After that the loop leaves the queued events alone.                     *)
LEMMA LaterWaiting ==
  ASSUME IInv, RethinkStep, pc \in AfterQueued
  PROVE  /\ \A c \in Waiting : c \in DOMAIN ev' /\ ev'[c] = ev[c]
         /\ \A c \in InState(S_QUEUED)' : c \in InState(S_QUEUED) /\ ev'[c] = ev[c]
<1>1. ASSUME NEW c \in Waiting PROVE c \in DOMAIN ev' /\ ev'[c] = ev[c]
  <2>1. c \in DOMAIN ev /\ ev[c].state = S_QUEUED
    BY DEF Waiting, InState
  <2>2. c \in DOMAIN ev'
    BY <2>1, LoopDialogs DEF Kept, S_QUEUED, S_DELETED, S_FINALIZED
  <2>3. Pos(pc) # S_QUEUED
    BY DEF Pos, AfterQueued, S_NEW, S_QUEUED, S_MISSED, S_POSTPONED, S_LIMBO, S_TRIGGERED,
           S_WAITSYSUI, S_SYSUI_REQ, S_SYSUI_ACK, S_SYSUI_RSP, S_SNOOZED, S_SERVED,
           S_RECURRING, S_DELETED, S_FINALIZED
  <2> QED BY <2>1, <2>2, <2>3, LoopBecomes DEF LoopEvents
<1> QED BY <1>1, QueuedAreOld

LEMMA LoopStatus ==
  ASSUME IInv, StatusInv, RethinkStep, ~RethinkFinish
  PROVE  StatusInv'
<1>1. /\ UNCHANGED <<up, dn, views, qsPrev, iconsPrev, iconShown>> /\ pc' # "idle"
      /\ RethinkTimechange \/ UNCHANGED flags
      /\ RethinkQueued \/ UNCHANGED <<qs, icons>>
  <2>1. UNCHANGED <<up, dn, views, qsPrev, iconsPrev, iconShown>>
    BY DEF RethinkStep, RethinkNew, RethinkWaitconn, RethinkTimechange, RethinkQueued,
         RethinkMissed, RethinkPostponed, RethinkLimbo, RethinkTriggered, RethinkWaitsysui,
         RethinkSysuiReq, RethinkSysuiAck, RethinkSysuiRsp, RethinkSnoozed, RethinkServed,
         RethinkRecurring, RethinkDeleted, RethinkCleanup, Phase, stateVars, statusVars,
         peerVars
  <2>2. pc' # "idle"
    BY DEF RethinkStep, RethinkNew, RethinkWaitconn, RethinkTimechange, RethinkQueued,
         RethinkMissed, RethinkPostponed, RethinkLimbo, RethinkTriggered, RethinkWaitsysui,
         RethinkSysuiReq, RethinkSysuiAck, RethinkSysuiRsp, RethinkSnoozed, RethinkServed,
         RethinkRecurring, RethinkDeleted, RethinkCleanup, Phase, PassOver
  <2>3. RethinkTimechange \/ UNCHANGED flags
    BY DEF RethinkStep, RethinkNew, RethinkWaitconn, RethinkQueued,
         RethinkMissed, RethinkPostponed, RethinkLimbo, RethinkTriggered, RethinkWaitsysui,
         RethinkSysuiReq, RethinkSysuiAck, RethinkSysuiRsp, RethinkSnoozed, RethinkServed,
         RethinkRecurring, RethinkDeleted, RethinkCleanup, Phase, stateVars
  <2>4. RethinkQueued \/ UNCHANGED <<qs, icons>>
    BY DEF RethinkStep, RethinkNew, RethinkWaitconn, RethinkTimechange,
         RethinkMissed, RethinkPostponed, RethinkLimbo, RethinkTriggered, RethinkWaitsysui,
         RethinkSysuiReq, RethinkSysuiAck, RethinkSysuiRsp, RethinkSnoozed, RethinkServed,
         RethinkRecurring, RethinkDeleted, RethinkCleanup, Phase, statusVars
  <2> QED BY <2>1, <2>2, <2>3, <2>4
<1>2. DownNoted' /\ Told' /\ IconTold' /\ StatusFresh'
  BY <1>1 DEF StatusInv, DownNoted, Told, IconTold, StatusFresh, Quiescent
<1>3. Typed /\ UNCHANGED now
  BY LoopClocks DEF IInv
<1>4. Computed'
  <2>1. CASE RethinkQueued
    <3>1. UNCHANGED flags
      BY <2>1 DEF RethinkQueued, stateVars
    <3>2. PICK d \in TimesOf("desktop"), a \in TimesOf("actdead"), n \in TimesOf("no_boot") :
            /\ Lowest(TimesOf("desktop"), d)
            /\ Lowest(TimesOf("actdead"), a)
            /\ Lowest(TimesOf("no_boot"), n)
            /\ qs' = [alarms |-> 0, desktop |-> d, actdead |-> a, no_boot |-> n]
            /\ icons' = Cardinality({c \in Waiting : Needs(ev[c], "SHOW_ICON")})
      BY <2>1 DEF RethinkQueued
    <3>3. qs'.desktop = d /\ qs'.actdead = a /\ qs'.no_boot = n
      BY <3>2
    <3>4. /\ Iconed' = Iconed
          /\ \A b : TimesOf(b)' = TimesOf(b)
      BY <1>3, <2>1, <3>1, QueuedWaiting, WaitingKept
    <3>5. icons' = Cardinality(Iconed)
      BY <3>2 DEF Iconed
    <3> QED BY <3>2, <3>3, <3>4, <3>5 DEF Computed, TimesFound
  <2>2. CASE ~RethinkQueued /\ pc' \in AfterQueued
    <3>1. pc \in AfterQueued
      BY <2>2, LoopPlaces
    <3>2. ~RethinkTimechange
      BY <3>1 DEF RethinkTimechange, AfterQueued
    <3>3. UNCHANGED <<flags, qs, icons>>
      BY <1>1, <2>2, <3>2
    <3>4. Iconed' = Iconed /\ (\A q : TimesFound(q)' <=> TimesFound(q))
      BY <1>3, <3>1, <3>3, LaterWaiting, WaitingKept
    <3> QED BY <3>1, <3>3, <3>4 DEF StatusInv, Computed, TimesFound
  <2> QED BY <2>1, <2>2 DEF Computed
<1> QED BY <1>2, <1>4 DEF StatusInv

LEMMA CountNat ==
  ASSUME QueueOK, NEW S \in SUBSET DOMAIN ev
  PROVE  Cardinality(S) \in Nat /\ (Cardinality(S) = 0 <=> S = {})
<1>1. S \subseteq 1 .. lastCookie /\ lastCookie \in Int
  BY ServerConstants DEF QueueOK
<1>2. IsFiniteSet(1 .. lastCookie)
  BY <1>1, FS_Interval
<1>3. IsFiniteSet(S)
  BY <1>1, <1>2, FS_Subset
<1> QED BY <1>3, FS_CardinalityType, FS_EmptySet

LEMMA FinishStatus ==
  ASSUME IInv, StatusInv, RethinkFinish
  PROVE  StatusInv'
<1> DEFINE status == [qs EXCEPT !.alarms = ActiveAlarms]
           previous == IF Returned \cap Listeners # {} THEN Invalidated(qsPrev) ELSE qsPrev
           shown == IF "STATUSBAR" \in Returned THEN -1 ELSE iconsPrev
<1>0. /\ QueueOK /\ qs \in QueueStatus /\ qsPrev \in QueueStatus
      /\ icons \in Int /\ iconsPrev \in Int
      /\ dn \subseteq Services /\ up \subseteq Services
  BY DEF IInv, Typed, StatusOK, FlagsOK
<1>1. /\ pc = "finish" /\ pc' = "idle" /\ UNCHANGED <<ev, now, up, icons>>
      /\ dn' = dn \ (dn \cap up)
      /\ qs' = status /\ qsPrev' = status
      /\ iconsPrev' = IF "STATUSBAR" \in up THEN icons ELSE shown
      /\ iconShown' = IF "STATUSBAR" \in up /\ shown # icons
                         /\ (icons = 0 \/ shown <= 0)
                      THEN icons > 0 ELSE iconShown
      /\ views' = IF previous # status
                  THEN [s \in Listeners |-> IF s \in up THEN status ELSE views[s]]
                  ELSE views
      /\ "CONNECTED" \in flags' <=> "CONNECTED" \in flags
      /\ "ACT_DEAD" \in flags' <=> "ACT_DEAD" \in flags
  BY DEF RethinkFinish, ServerStateSync, QueuestateSync, Returned, clockVars
<1>2. ActiveAlarms \in Nat
  <2>1. InState(S_WAITSYSUI) \cup InState(S_SYSUI_REQ) \cup InState(S_SYSUI_ACK)
          \cup {c \in InState(S_LIMBO) :
                  "ACT_DEAD" \in flags /\ Needs(ev[c], "ACTDEAD")}
        \in SUBSET DOMAIN ev
    BY DEF InState
  <2> QED BY <1>0, <2>1, CountNat DEF ActiveAlarms
<1>3. /\ status.alarms = ActiveAlarms /\ status.desktop = qs.desktop
      /\ status.actdead = qs.actdead /\ status.no_boot = qs.no_boot
  BY <1>0 DEF QueueStatus
<1>4. previous.alarms = -1 \/ (previous = qsPrev /\ Returned \cap Listeners = {})
  BY <1>0 DEF Invalidated, QueueStatus
<1>5. shown = -1 \/ (shown = iconsPrev /\ "STATUSBAR" \notin Returned)
  OBVIOUS
<1>6. shown = iconsPrev \/ "STATUSBAR" \in Returned
  OBVIOUS
<1> HIDE DEF status, previous, shown
<1>7. \A s \in Listeners \cap up : views'[s] = status
  <2> SUFFICES ASSUME NEW s \in Listeners \cap up PROVE views'[s] = status
    OBVIOUS
  <2>1. CASE previous # status
    BY <1>1, <2>1
  <2>2. CASE previous = status
    <3>1. previous.alarms # -1
      BY <1>2, <1>3, <2>2
    <3>2. qsPrev = status /\ s \notin dn
      BY <1>4, <2>2, <3>1 DEF Returned
    <3>3. views[s] = qsPrev
      BY <2>2, <3>1, <3>2 DEF StatusInv, Told
    <3> QED BY <1>1, <2>2, <3>2, <3>3
  <2> QED BY <2>1, <2>2
<1>8. icons \in Nat /\ (icons = 0 <=> Iconed = {})
  <2>1. icons = Cardinality(Iconed) /\ Iconed \in SUBSET DOMAIN ev
    BY <1>1 DEF StatusInv, Computed, AfterQueued, Iconed, Waiting, InState
  <2> QED BY <1>0, <2>1, CountNat
<1>9. "STATUSBAR" \in up => iconsPrev' = icons /\ (iconShown' <=> icons > 0)
  <2> SUFFICES ASSUME "STATUSBAR" \in up
               PROVE  iconsPrev' = icons /\ (iconShown' <=> icons > 0)
    OBVIOUS
  <2>1. CASE "STATUSBAR" \in Returned
    <3>1. shown = -1
      BY <2>1 DEF shown
    <3>2. shown # icons /\ shown <= 0
      BY <1>8, <3>1
    <3>3. iconsPrev' = icons
      BY <1>1
    <3>4. iconShown' = (icons > 0)
      BY <1>1, <3>2
    <3> QED BY <3>3, <3>4
  <2>2. CASE "STATUSBAR" \notin Returned
    <3>1. shown = iconsPrev /\ iconsPrev >= 0 /\ (iconShown <=> iconsPrev > 0)
      BY <1>6, <2>2 DEF StatusInv, IconTold, Returned
    <3>2. CASE shown = icons
      BY <1>1, <3>1, <3>2
    <3>3. CASE shown # icons /\ (icons = 0 \/ shown <= 0)
      BY <1>1, <3>3
    <3>4. CASE shown # icons /\ icons # 0 /\ ~(shown <= 0)
      <4>1. shown > 0 /\ icons > 0
        BY <1>0, <1>8, <3>1, <3>4
      <4> QED BY <1>1, <3>1, <3>4, <4>1
    <3> QED BY <3>2, <3>3, <3>4
  <2> QED BY <2>1, <2>2
<1>10. /\ Waiting' = Waiting /\ Iconed' = Iconed
       /\ \A b : TimesOf(b)' = TimesOf(b)
  <2>1. \A c \in Waiting : c \in DOMAIN ev' /\ ev'[c] = ev[c]
    BY <1>1 DEF Waiting, InState
  <2>2. \A c \in InState(S_QUEUED)' : c \in InState(S_QUEUED) /\ ev'[c] = ev[c]
    BY <1>1 DEF InState, Visible
  <2> QED BY <1>1, <2>1, <2>2, WaitingKept
<1>11. ActiveAlarms' = ActiveAlarms
  BY <1>1 DEF ActiveAlarms, InState, Visible, Needs
<1>12. DownNoted' /\ Computed'
  BY <1>1 DEF StatusInv, DownNoted, Computed, AfterQueued
<1>13. Told' /\ IconTold'
  BY <1>1, <1>7, <1>8, <1>9 DEF Told, IconTold
<1>14. StatusFresh'
  <2>1. TimesFound(qs)
    BY <1>1 DEF StatusInv, Computed, AfterQueued
  <2>2. TimesFound(status)
    BY <1>3, <2>1 DEF TimesFound
  <2>3. ASSUME NEW s \in (Listeners \cap up)'
        PROVE  /\ views'[s].alarms = ActiveAlarms'
               /\ Lowest(TimesOf("desktop"), views[s].desktop)'
               /\ Lowest(TimesOf("actdead"), views[s].actdead)'
               /\ Lowest(TimesOf("no_boot"), views[s].no_boot)'
    <3>1. views'[s] = status
      BY <1>1, <1>7, <2>3
    <3>2. /\ TimesOf("desktop")' = TimesOf("desktop")
          /\ TimesOf("actdead")' = TimesOf("actdead")
          /\ TimesOf("no_boot")' = TimesOf("no_boot")
      BY <1>10
    <3>3. views'[s].alarms = ActiveAlarms'
      BY <1>3, <1>11, <3>1
    <3> QED BY <2>2, <3>1, <3>2, <3>3 DEF TimesFound, Lowest
  <2>4. "STATUSBAR" \in up' =>
          (iconShown' <=> \E c \in Waiting' : Needs(ev'[c], "SHOW_ICON"))
    BY <1>1, <1>8, <1>9, <1>10 DEF Iconed
  <2> QED BY <2>3, <2>4 DEF StatusFresh
<1> QED BY <1>12, <1>13, <1>14 DEF StatusInv

(* The handlers either ask for a rethink or leave alone what was told.     *)
LEMMA QuietStatus ==
  ASSUME StatusInv, pc' \notin AfterQueued, DownNoted', Told', IconTold',
         Quiescent' => /\ Quiescent
                       /\ UNCHANGED <<ev, now, flags, up, views, iconShown>>
  PROVE  StatusInv'
<1>1. Computed'
  BY DEF Computed
<1>2. StatusFresh'
  <2> SUFFICES ASSUME Quiescent' PROVE StatusFresh'
    BY DEF StatusFresh
  <2>1. StatusFresh /\ Quiescent /\ UNCHANGED <<ev, now, flags, up, views, iconShown>>
    BY DEF StatusInv
  <2>2. Waiting' = Waiting /\ (\A b : TimesOf(b)' = TimesOf(b))
    <3>1. \A c \in Waiting : c \in DOMAIN ev' /\ ev'[c] = ev[c]
      BY <2>1 DEF Waiting, InState
    <3>2. \A c \in InState(S_QUEUED)' : c \in InState(S_QUEUED) /\ ev'[c] = ev[c]
      BY <2>1 DEF InState, Visible
    <3> QED BY <2>1, <3>1, <3>2, WaitingKept
  <2>3. ActiveAlarms' = ActiveAlarms
    BY <2>1 DEF ActiveAlarms, InState, Visible, Needs
  <2>4. /\ TimesOf("desktop")' = TimesOf("desktop")
        /\ TimesOf("actdead")' = TimesOf("actdead")
        /\ TimesOf("no_boot")' = TimesOf("no_boot")
    BY <2>2
  <2>5. "STATUSBAR" \in up' =>
          (iconShown' <=> \E c \in Waiting' : Needs(ev'[c], "SHOW_ICON"))
    BY <2>1, <2>2 DEF StatusFresh
  <2>6. \A s \in (Listeners \cap up)' :
          /\ views'[s].alarms = ActiveAlarms'
          /\ Lowest(TimesOf("desktop"), views[s].desktop)'
          /\ Lowest(TimesOf("actdead"), views[s].actdead)'
          /\ Lowest(TimesOf("no_boot"), views[s].no_boot)'
    BY <2>1, <2>3, <2>4 DEF StatusFresh, Lowest
  <2> QED BY <2>5, <2>6 DEF StatusFresh
<1> QED BY <1>1, <1>2 DEF StatusInv

(* Steps that do not touch the services and what they were told.           *)
LEMMA UntoldStatus ==
  ASSUME StatusInv, pc' \notin AfterQueued,
         UNCHANGED <<up, dn, views, iconsPrev, iconShown>>,
         qsPrev' = qsPrev \/ qsPrev'.alarms = -1,
         Quiescent' => Quiescent /\ UNCHANGED <<ev, now, flags>>
  PROVE  StatusInv'
<1>1. DownNoted' /\ Told' /\ IconTold'
  BY DEF StatusInv, DownNoted, Told, IconTold
<1> QED BY <1>1, QuietStatus

(* A change of the state that leaves the daemon at rest is none.           *)
LEMMA NoChange ==
  ASSUME Typed, NEW f, NEW u, NEW d, SetState3(f, u, d)
  PROVE  rethink' = Never =>
           rethink = Never /\ UNCHANGED <<flags, up, dn>> /\ f = flags /\ u = up /\ d = dn
BY RequestedOk DEF SetState3

LEMMA TimerStatus ==
  ASSUME IInv, StatusInv, TimerStep \/ ClockStep
  PROVE  StatusInv'
<1>0. Typed
  BY DEF IInv
<1>1. pc = "idle" /\ pc' \in {"idle", "new"} /\ pc' \notin AfterQueued
  <2>1. pc = "idle" /\ pc' \in {"idle", "new"}
    BY HandlersWait
       DEF HandlerStep, TimerStep, RethinkUnstable, RethinkStart, WakeupFires, SaveFires,
           LimboTimeout, LimboFrame, ClockStep, Tick, ClockJump, ZoneChange, ClockFrame
  <2> QED BY <2>1 DEF AfterQueued
<1>2. UNCHANGED <<dn, up, views, iconsPrev, iconShown>>
  <2>1. TimerStep => UNCHANGED <<dn, up, views, iconsPrev, iconShown>>
    BY DEF TimerStep, RethinkUnstable, RethinkStart, WakeupFires, SaveFires, LimboTimeout,
           LimboDisabled, SetFlags, SetState3, LimboFrame, statusVars, peerVars, stateVars
  <2>2. ClockStep => UNCHANGED <<dn, up, views, iconsPrev, iconShown>>
    BY DEF ClockStep, Tick, ClockJump, ZoneChange, ClockFrame, peerVars, stateVars, statusVars
  <2> QED BY <2>1, <2>2
<1>3. qsPrev' = qsPrev \/ qsPrev'.alarms = -1
  <2>1. RethinkUnstable => qsPrev'.alarms = -1
    BY <1>0 DEF RethinkUnstable, Invalidated, Typed, StatusOK, QueueStatus
  <2>2. TimerStep /\ ~RethinkUnstable => qsPrev' = qsPrev
    BY DEF TimerStep, RethinkStart, WakeupFires, SaveFires, LimboTimeout, LimboFrame, statusVars
  <2>3. ClockStep => qsPrev' = qsPrev
    BY DEF ClockStep, Tick, ClockJump, ZoneChange, ClockFrame, statusVars
  <2> QED BY <2>1, <2>2, <2>3
<1>4. Quiescent' => Quiescent /\ UNCHANGED <<ev, now, flags>>
  <2>1. CASE RethinkStart
    BY <2>1 DEF RethinkStart, Quiescent
  <2>2. CASE RethinkUnstable
    <3>1. rethink' = mono + 1 /\ mono \in Nat
      BY <1>0, <2>2 DEF RethinkUnstable, Typed, ClocksOK
    <3>2. rethink' # Never
      BY <3>1 DEF Never
    <3> QED BY <3>2 DEF Quiescent
  <2>3. CASE WakeupFires
    BY <1>0, <2>3, RequestAsks DEF WakeupFires, Quiescent
  <2>4. CASE LimboTimeout
    <3>1. SetState3(flags \cup {"DESKTOP_UP"}, up, dn) /\ UNCHANGED <<ev, now>>
      BY <2>4 DEF LimboTimeout, LimboDisabled, SetFlags, LimboFrame, clockVars
    <3>2. rethink' = Never => rethink = Never /\ UNCHANGED flags
      BY <1>0, <3>1, NoChange
    <3> QED BY <1>1, <3>1, <3>2 DEF Quiescent
  <2>5. CASE SaveFires \/ ClockStep
    <3>1. UNCHANGED <<ev, now, flags, rethink>>
      BY <2>5 DEF SaveFires, ClockStep, Tick, ClockJump, ZoneChange, ClockFrame, timerVars,
                  clockVars, stateVars
    <3> QED BY <1>1, <3>1 DEF Quiescent
  <2> QED BY <2>1, <2>2, <2>3, <2>4, <2>5 DEF TimerStep
<1> QED BY <1>1, <1>2, <1>3, <1>4, UntoldStatus

LEMMA RequestStatus ==
  ASSUME "CUD" \notin Stimuli, IInv, StatusInv, ClientStep \/ UserStep
  PROVE  StatusInv'
<1>0. Typed
  BY DEF IInv
<1>1. pc = "idle" /\ pc' = "idle" /\ pc' \notin AfterQueued
  <2>1. pc = "idle" /\ pc' = pc
    BY HandlersWait
       DEF HandlerStep, ClientStep, UserStep, EventAdd, EventUpdate, EventDel, SnoozeSet,
           ClearUserData, RestoreFactorySettings, SaveData, QueueAck, UserAnswers, EventAck,
           HandlerFrame
  <2> QED BY <2>1 DEF AfterQueued
<1>2. UNCHANGED <<dn, up, views, iconsPrev, iconShown, qsPrev>>
  <2>1. ClientStep => UNCHANGED <<dn, up, views, iconsPrev, iconShown, qsPrev>>
    BY DEF ClientStep, EventAdd, EventUpdate, EventDel, SnoozeSet, ClearUserData,
           RestoreFactorySettings, SaveData, HandlerFrame, statusVars, peerVars, stateVars
  <2>2. UserStep => UNCHANGED <<dn, up, views, iconsPrev, iconShown, qsPrev>>
    BY DEF UserStep, QueueAck, UserAnswers, EventAck, HandlerFrame, statusVars, peerVars,
           stateVars
  <2> QED BY <2>1, <2>2
<1>3. Quiescent' => Quiescent /\ UNCHANGED <<ev, now, flags>>
  <2>1. CASE RethinkRequest
    BY <1>0, <2>1, RequestAsks DEF Quiescent
  <2>2. CASE ~RethinkRequest
    <3>1. (\E v \in SnoozeVals : SnoozeSet(v)) \/ RestoreFactorySettings \/ SaveData
            \/ (\E c, b, p : UserAnswers(c, b, p))
      BY <2>2 DEF ClientStep, UserStep, EventAdd, EventUpdate, EventDel, QueueAck, EventAck,
                  ClearUserData, May
    <3>2. UNCHANGED <<ev, now, flags, rethink>>
      BY <3>1 DEF SnoozeSet, RestoreFactorySettings, SaveData, UserAnswers, timerVars,
                  clockVars, stateVars
    <3> QED BY <1>1, <3>2 DEF Quiescent
  <2> QED BY <2>1, <2>2
<1> QED BY <1>1, <1>2, <1>3, UntoldStatus

LEMMA SignalStatus ==
  ASSUME IInv, StatusInv, SignalStep
  PROVE  StatusInv'
<1>0. Typed
  BY DEF IInv
<1>1. /\ pc = "idle" /\ pc' = "idle" /\ pc' \notin AfterQueued
      /\ UNCHANGED <<ev, now, qsPrev, iconsPrev>>
  <2>1. pc = "idle" /\ pc' = pc
    BY HandlersWait
       DEF HandlerStep, SignalStep, NameLost, NameGained, InitDone, HildonReady, HomeReady,
           IcdStatus, TimeChange, LimboFrame, HandlerFrame
  <2>2. UNCHANGED <<ev, now, qsPrev, iconsPrev>>
    BY DEF SignalStep, NameLost, NameGained, InitDone, HildonReady, HomeReady,
           IcdStatus, TimeChange, LimboFrame, HandlerFrame, clockVars, statusVars
  <2> QED BY <2>1, <2>2 DEF AfterQueued
<1>2. ASSUME NEW s \in Churn, NameLost(s) PROVE StatusInv'
  <2>1. /\ s \in up /\ SetState3(flags, up \ {s}, dn \cup {s})
        /\ views' = IF s \in Listeners THEN [views EXCEPT ![s] = NoView] ELSE views
        /\ iconShown' = IF s = "STATUSBAR" THEN FALSE ELSE iconShown
    BY <1>2 DEF NameLost
  <2>2. up' = up \ {s} /\ dn' = dn \cup {s}
    BY <2>1 DEF SetState3
  <2>3. views \in [Listeners -> QueueStatus]
    BY <1>0 DEF Typed, PeersOK
  <2>4. DownNoted'
    BY <2>2 DEF StatusInv, DownNoted
  <2>5. Told'
    BY <1>1, <2>1, <2>2, <2>3 DEF StatusInv, Told
  <2>6. IconTold'
    BY <1>1, <2>1, <2>2 DEF StatusInv, IconTold
  <2>7. ~Quiescent'
    BY <1>0, <2>1, NoChange DEF Quiescent
  <2> QED BY <1>1, <2>4, <2>5, <2>6, <2>7, QuietStatus
<1>3. ASSUME NEW s \in Churn, NameGained(s) PROVE StatusInv'
  <2>1. s \notin up /\ SetState3(flags, up \cup {s}, dn) /\ UNCHANGED <<views, iconShown>>
    BY <1>3 DEF NameGained, peerVars
  <2>2. up' = up \cup {s} /\ dn' = dn
    BY <2>1 DEF SetState3
  <2>3. s \in dn
    BY <2>1, EnvironmentConstants DEF StatusInv, DownNoted
  <2>4. DownNoted'
    BY <2>2 DEF StatusInv, DownNoted
  <2>5. Told'
    BY <1>1, <2>1, <2>2, <2>3 DEF StatusInv, Told
  <2>6. IconTold'
    BY <1>1, <2>1, <2>2, <2>3 DEF StatusInv, IconTold
  <2>7. ~Quiescent'
    BY <1>0, <2>1, NoChange DEF Quiescent
  <2> QED BY <1>1, <2>4, <2>5, <2>6, <2>7, QuietStatus
<1>4. ASSUME UNCHANGED <<views, iconShown>>, \E f : SetState3(f, up, dn)
      PROVE  StatusInv'
  <2>1. PICK f : SetState3(f, up, dn)
    BY <1>4
  <2>2. UNCHANGED <<up, dn>>
    BY <2>1 DEF SetState3
  <2>3. Quiescent' => Quiescent /\ UNCHANGED <<ev, now, flags>>
    BY <1>0, <1>1, <2>1, NoChange DEF Quiescent
  <2> QED BY <1>1, <1>4, <2>2, <2>3, UntoldStatus
<1>5. ASSUME UNCHANGED <<views, iconShown, stateVars, rethink>>
      PROVE  StatusInv'
  <2>1. UNCHANGED <<up, dn, flags>>
    BY <1>5 DEF stateVars
  <2>2. Quiescent' => Quiescent /\ UNCHANGED <<ev, now, flags>>
    BY <1>1, <1>5, <2>1 DEF Quiescent
  <2> QED BY <1>1, <1>5, <2>1, <2>2, UntoldStatus
<1>6. InitDone \/ HildonReady \/ HomeReady => StatusInv'
  <2>1. ASSUME LimboDisabled, LimboFrame PROVE StatusInv'
    BY <1>4, <2>1 DEF LimboDisabled, SetFlags, LimboFrame, peerVars
  <2>2. ASSUME HomeReady, WaitState # "home" PROVE StatusInv'
    BY <1>5, <2>2 DEF HomeReady, LimboFrame, peerVars
  <2> QED BY <2>1, <2>2 DEF InitDone, HildonReady, HomeReady
<1>7. ASSUME NEW b, IcdStatus \/ TimeChange(b) PROVE StatusInv'
  BY <1>4, <1>7 DEF IcdStatus, TimeChange, SetFlags, peerVars
<1> QED BY <1>2, <1>3, <1>6, <1>7 DEF SignalStep

LEMMA StatusStep ==
  ASSUME "CUD" \notin Stimuli
  PROVE  IInv /\ StatusInv /\ [Next]_vars => StatusInv'
<1> SUFFICES ASSUME IInv, StatusInv, [Next]_vars PROVE StatusInv'
  OBVIOUS
<1>1. CASE UNCHANGED vars
  <2>1. UNCHANGED <<up, dn, views, qsPrev, iconsPrev, iconShown, pc, rethink, ev, now, flags,
                    qs, icons>>
    BY <1>1 DEF vars, stateVars, statusVars, peerVars, timerVars, clockVars
  <2>2. StatusFresh' /\ Computed'
    BY <2>1 DEF StatusInv, StatusFresh, Computed, TimesFound, Quiescent, ActiveAlarms, TimesOf,
                Iconed, Waiting, Boots, InState, Visible, Offline, Connected, Needs, Lowest
  <2> QED BY <2>1, <2>2 DEF StatusInv, DownNoted, Told, IconTold
<1>2. CASE RethinkStep
  BY <1>2, LoopStatus, FinishStatus
<1> QED BY <1>1, <1>2, TimerStatus, RequestStatus, SignalStatus DEF Next

(* Whoever decides about powering the device up or down was told what the  *)
(* queue holds, and the icon is shown when it should be: across services   *)
(* that come and go, clock changes that make the last broadcast stale, and *)
(* passes of the loop that are repeated.  Clearing user data is left out:  *)
(* it publishes nothing.                                                   *)
THEOREM StatusTold ==
  ASSUME "CUD" \notin Stimuli
  PROVE  Spec => []StatusFresh
<1>1. Init => StatusInv
  <2> SUFFICES ASSUME Init PROVE StatusInv
    OBVIOUS
  <2>1. /\ pc = "idle" /\ rethink = 0 /\ dn = Services /\ up \subseteq Services
        /\ ~Quiescent
    BY EnvironmentConstants DEF Init, Quiescent, Never
  <2> QED BY <2>1 DEF StatusInv, DownNoted, Told, IconTold, Computed, AfterQueued, StatusFresh,
                      Listeners, Services
<1>2. StatusInv => StatusFresh
  BY DEF StatusInv
<1> QED BY <1>1, <1>2, StatusStep, Inductive, PTL DEF Spec
=============================================================================
