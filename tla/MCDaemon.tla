------------------------------- MODULE MCDaemon -------------------------------
(***************************************************************************)
(* The components of the daemon that share no state with each other: the   *)
(* initial state chooses the one that is driven, the others rest in theirs.*)
(*                                                                         *)
(* Two sessions of two prompts each in the journal, so that the latest of  *)
(* several rows of a session, and the rows of another session, can both be *)
(* the wrong ones; two openings of one chat; two turns of a chat, and two  *)
(* requests to interrupt them; two clients and two drains; two sessions on *)
(* a page, one of them selected; two events for two providers; two chats   *)
(* for one slot; a command that Cloud sends twice.  Liveness is checked on *)
(* smaller instances.                                                      *)
(***************************************************************************)
EXTENDS PromptJournal, SessionStore, SourceTurnInterrupt, UpdateReadiness,
        LiveUpdates, NotificationOutbox, LocalChat, CloudConnector

CONSTANT Driven                 \* the components that are driven, one at a time

VARIABLE focus                  \* the one that is

(* Two chats with a local model differ in nothing but their names.         *)
ChatSymmetry == Permutations(LocalChats)

DaemonVars ==
  <<focus, journal, StoreVars, InterruptVars, ReadinessVars, LiveVars, OutboxVars, ChatVars, CloudVars>>

DaemonInit ==
  /\ focus \in Driven
  /\ Init /\ StoreInit /\ InterruptInit /\ ReadinessInit /\ LiveInit /\ OutboxInit
  /\ ChatInit /\ CloudInit
  /\ focus # "store" => agent = "codex"
  /\ focus # "readiness" => ~turn
  /\ focus # "cloud" => ~profile.labels

DaemonNext ==
  /\ UNCHANGED focus
  /\ \/ /\ focus = "journal" /\ Next
        /\ UNCHANGED <<StoreVars, InterruptVars, ReadinessVars, LiveVars, OutboxVars, ChatVars, CloudVars>>
     \/ /\ focus = "store" /\ StoreNext
        /\ UNCHANGED <<journal, InterruptVars, ReadinessVars, LiveVars, OutboxVars, ChatVars, CloudVars>>
     \/ /\ focus = "interrupt" /\ InterruptNext
        /\ UNCHANGED <<journal, StoreVars, ReadinessVars, LiveVars, OutboxVars, ChatVars, CloudVars>>
     \/ /\ focus = "readiness" /\ ReadinessNext
        /\ UNCHANGED <<journal, StoreVars, InterruptVars, LiveVars, OutboxVars, ChatVars, CloudVars>>
     \/ /\ focus = "live" /\ LiveNext
        /\ UNCHANGED <<journal, StoreVars, InterruptVars, ReadinessVars, OutboxVars, ChatVars, CloudVars>>
     \/ /\ focus = "outbox" /\ OutboxNext
        /\ UNCHANGED <<journal, StoreVars, InterruptVars, ReadinessVars, LiveVars, ChatVars, CloudVars>>
     \/ /\ focus = "chat" /\ ChatNext
        /\ UNCHANGED <<journal, StoreVars, InterruptVars, ReadinessVars, LiveVars, OutboxVars, CloudVars>>
     \/ /\ focus = "cloud" /\ CloudNext
        /\ UNCHANGED <<journal, StoreVars, InterruptVars, ReadinessVars, LiveVars, OutboxVars, ChatVars>>

DaemonSpec == DaemonInit /\ [][DaemonNext]_DaemonVars

(* The fairness of each component, restricted to the one that is driven: a *)
(* page at rest would still open its socket, and a connector its relay.    *)
DaemonFairSpec ==
  /\ DaemonSpec
  /\ WF_InterruptVars(focus = "interrupt" /\ ChatReadInFull)
  /\ WF_LiveVars(focus = "live" /\ Replay)
  /\ WF_LiveVars(focus = "live" /\ Receive)
  /\ WF_LiveVars(focus = "live" /\ PresenceArrives)
  /\ WF_LiveVars(focus = "live" /\ SocketOpens)
  /\ \A n \in Notifications :
       /\ WF_OutboxVars(focus = "outbox" /\ (NotificationSettled(n) \/ RetryQueued(n)))
       /\ WF_OutboxVars(focus = "outbox" /\ (RetrySaved(n) \/ RetryArmed(n) \/ RetryNotSaved(n)))
       /\ WF_OutboxVars(focus = "outbox" /\ RetryTimerFires(n))
  /\ WF_OutboxVars(focus = "outbox" /\ ServiceCloseEnds)
  /\ WF_OutboxVars(focus = "outbox" /\ ServiceStarts)
  /\ \A c \in LocalChats :
       /\ WF_ChatVars(focus = "chat" /\ CommandNext(c))
       /\ WF_ChatVars(focus = "chat" /\ GenerationNext(c))
       /\ WF_ChatVars(focus = "chat" /\ gen[c].aborted /\ Breaks(c))
  /\ WF_ChatVars(focus = "chat" /\ ReservationsEnd)
  /\ WF_ChatVars(focus = "chat" /\ LocalCloseEnds)
  /\ WF_CloudVars(focus = "cloud" /\ ProjectionSteps)
  /\ WF_CloudVars(focus = "cloud" /\ RelaySteps)
===============================================================================
