-------------------------- MODULE SourceTurnInterrupt -------------------------
(***************************************************************************)
(* SourceTurnInterruptLifecycle and its table: what DeskCue remembers of   *)
(* the turns of one chat that it was asked to interrupt.  The chat is a    *)
(* transcript that another program writes; DeskCue sees it through views,  *)
(* which may be bounded (the start of a turn is outside of the window) or  *)
(* old (a handler keeps its view across an await).  One managed session    *)
(* is attached to the chat; its one-shot child runs one prompt.            *)
(***************************************************************************)
EXTENDS Naturals, FiniteSets

CONSTANTS MaxTurns,             \* turns the transcript ever has
          MaxInterrupts,        \* interrupt requests that are ever recorded
          Interrupters,         \* requests that can be under way at once
          Outcomes              \* how a turn of the transcript may end

ASSUME MaxTurnsAssumption == MaxTurns \in Nat \ {0}
ASSUME MaxInterruptsAssumption == MaxInterrupts \in Nat \ {0}
ASSUME OutcomesAssumption == "interrupted" \in Outcomes /\ "active" \notin Outcomes

VARIABLES chat,                 \* the transcript
          managed,              \* the attached session and its child
          interrupts,           \* the table source_turn_interrupts
          requested,            \* how many requests were ever recorded
          interrupter           \* the requests under way

InterruptVars == <<chat, managed, interrupts, requested, interrupter>>

Turn == 1 .. MaxTurns

(* The unique key is the fingerprint of a turn: its user entry, where the  *)
(* prompt is DeskCue's own, or its start; a forced stop without a turn     *)
(* gets a fingerprint of its own.                                          *)
ForcedStop == <<0, "stop">>
Key        == (Turn \X {"prompt", "start"}) \cup {ForcedStop}

Open      == {"requested", "unresolved"}
Confirmed == {"confirmed_source", "confirmed_process"}

(* rank is the place in the order of requested_at; after is how many turns *)
(* had ended at turn_started_at; begun is how many had begun when a stop   *)
(* was forced without a turn.                                              *)
NoInterrupt == [phase |-> "absent", rank |-> 0, outcome |-> "none", after |-> 0, begun |-> 0]

Interrupt ==
  [phase : Open \cup Confirmed, rank : 1 .. MaxInterrupts,
   outcome : Outcomes \cup {"none"}, after : 0 .. MaxTurns, begun : 0 .. MaxTurns]

Ended == chat.begun - (IF chat.begun > 0 /\ chat.phase[chat.begun] = "active" THEN 1 ELSE 0)

-----------------------------------------------------------------------------
(* Views of the transcript: of its latest turn, idle if the turn has been  *)
(* silent for too long; known is whether the entry that started the turn   *)
(* is in the window, full whether there is a transcript or only a summary. *)

View ==
  [turn : 0 .. MaxTurns, phase : Outcomes \cup {"active", "idle"},
   known : BOOLEAN, full : BOOLEAN]

SeenPhase == IF chat.begun = 0 THEN {"idle"}
             ELSE {chat.phase[chat.begun]}
                    \cup (IF chat.phase[chat.begun] = "active" THEN {"idle"} ELSE {})

Views ==
  {v \in View : /\ v.turn = chat.begun /\ v.phase \in SeenPhase
                /\ v.phase = "idle" => v.known /\ v.full}

-----------------------------------------------------------------------------
(* The store.                                                              *)

IsLatestOf(table, k) ==
  /\ table[k] # NoInterrupt
  /\ \A j \in Key : table[j].rank <= table[k].rank

Upsert(table, k, r) == [table EXCEPT ![k] = r]
Delete(table, k)    == [table EXCEPT ![k] = NoInterrupt]

(* request(): a new row, or the row of the turn again.                     *)
Request(k) ==
  [phase |-> "requested", rank |-> requested + 1, outcome |-> "none",
   after |-> IF k = ForcedStop THEN Ended ELSE k[1] - 1,
   begun |-> IF k = ForcedStop THEN chat.begun ELSE 0]

(* confirmManagedTransportExit: the latest row, if it is still open.       *)
ConfirmTransportExit(table) ==
  [k \in Key |->
     IF IsLatestOf(table, k) /\ table[k].phase \in Open
     THEN [table[k] EXCEPT !.phase = "confirmed_process", !.outcome = "interrupted"]
     ELSE table[k]]

(* reconcileRecord: the latest row against a view.                         *)

NewerTurn(k, r, v) ==
  \/ v.phase = "active" /\ k = ForcedStop  /\ v.turn > r.begun
  \/ v.phase = "active" /\ k # ForcedStop  /\ (v.known => v.turn # k[1])
  \/ v.phase \in Outcomes /\ v.turn > r.after /\ v.full /\ v.known /\ v.turn # k[1]

TerminalOf(k, r, v) ==
  v.phase \in Outcomes /\ v.turn > r.after /\ ~NewerTurn(k, r, v)

(* Variant: the grace of a request is over for a confirmed one, too.       *)
ReconciledForgetful(k, r, v, late) ==
  CASE NewerTurn(k, r, v) -> NoInterrupt
    [] TerminalOf(k, r, v) -> IF v.full
                              THEN [r EXCEPT !.phase = "confirmed_source", !.outcome = v.phase]
                              ELSE r
    [] OTHER -> IF late THEN [r EXCEPT !.phase = "unresolved", !.outcome = "none"] ELSE r

Reconciled(k, r, v, late) ==
  CASE NewerTurn(k, r, v) -> NoInterrupt
    [] TerminalOf(k, r, v) -> IF v.full
                              THEN [r EXCEPT !.phase = "confirmed_source", !.outcome = v.phase]
                              ELSE r
    [] OTHER -> IF late /\ r.phase = "requested" THEN [r EXCEPT !.phase = "unresolved"] ELSE r

(* decorate(): the latest row is reconciled, or goes if it has expired.    *)
(* Its age is young, late (the 20 s of grace are over) or expired (24 h or *)
(* 7 d).                                                                   *)
Decorate(table, v, age) ==
  [k \in Key |->
     IF ~IsLatestOf(table, k) THEN table[k]
     ELSE IF age = "expired" THEN NoInterrupt
     ELSE Reconciled(k, table[k], v, age = "late")]

(* A stop is confirmed, or given up, within 5 s; the grace of the row it   *)
(* made is not over before.                                                *)
Ages ==
  IF \E h \in Interrupters, k \in Key :
       /\ interrupter[h].step = "stopping"
       /\ IsLatestOf(interrupts, k) /\ interrupts[k].rank = interrupter[h].rank
  THEN {"young"} ELSE {"young", "late"}

(* What reconcile() does before it decorates: a session that is stopped    *)
(* and has no child has had its exit, confirmed or not.  If there is no    *)
(* row at all, the log and the view may still prove an interrupted turn.   *)
Reconcilable == managed.child = "none" /\ managed.status = "stopped"

LostRequest(v) ==
  /\ \A k \in Key : interrupts[k] = NoInterrupt
  /\ v.full /\ v.known /\ v.phase = "active" /\ v.turn = managed.own
  /\ managed.logged
  /\ requested < MaxInterrupts

RequestedAgain(v) ==
  LET k == <<v.turn, "prompt">> IN Upsert(interrupts, k, Request(k))

(* Variant: only a row that the log can still prove is confirmed.          *)
AfterProvenExit(v) ==
  IF Reconcilable /\ LostRequest(v)
  THEN ConfirmTransportExit(RequestedAgain(v))
  ELSE interrupts

AfterExit(v) ==
  IF ~Reconcilable THEN interrupts
  ELSE ConfirmTransportExit(IF LostRequest(v) THEN RequestedAgain(v) ELSE interrupts)

-----------------------------------------------------------------------------
(* The requests under way.  target is the turn that was active when the    *)
(* transcript was read, rank the row the handler itself created, 0 if it   *)
(* found the request of another one.                                       *)
NoKey == <<0, "none">>

NoView == [turn |-> 0, phase |-> "idle", known |-> TRUE, full |-> TRUE]

NoInterrupter == [step |-> "idle", view |-> NoView, target |-> NoKey, rank |-> 0]

InterruptInit ==
  /\ chat = [begun |-> 0, phase |-> [t \in Turn |-> "none"]]
  /\ managed = [child |-> "none", status |-> "stopped", own |-> 0, logged |-> FALSE]
  /\ interrupts = [k \in Key |-> NoInterrupt]
  /\ requested = 0
  /\ interrupter = [h \in Interrupters |-> NoInterrupter]

(* Another program writes the transcript.  A turn is DeskCue's if it is    *)
(* the first one after DeskCue sent its prompt.                            *)
TurnBegins ==
  /\ chat.begun < MaxTurns
  /\ chat.begun > 0 => chat.phase[chat.begun] # "active"
  /\ chat' = [begun |-> chat.begun + 1, phase |-> [chat.phase EXCEPT ![chat.begun + 1] = "active"]]
  /\ \/ managed' = managed
     \/ /\ managed.own = 0
        /\ managed.child # "none" \/ managed.logged
        /\ managed' = [managed EXCEPT !.own = chat.begun + 1]
  /\ UNCHANGED <<interrupts, requested, interrupter>>

TurnEnds ==
  /\ chat.begun > 0
  /\ chat.phase[chat.begun] = "active"
  /\ \E o \in Outcomes : chat' = [chat EXCEPT !.phase[chat.begun] = o]
  /\ UNCHANGED <<managed, interrupts, requested, interrupter>>

(* The prompt transport.                                                   *)
PromptSent ==
  /\ managed.child = "none"
  /\ managed' = [child |-> "alive", status |-> "running", own |-> 0, logged |-> FALSE]
  /\ UNCHANGED <<chat, interrupts, requested, interrupter>>

(* finalizeStoreBackedSession, at every exit of the child.                 *)
TransportExits ==
  /\ managed.child = "alive"
  /\ managed' = [managed EXCEPT !.child = "none", !.status = "stopped",
                                !.own = IF managed.logged THEN @ ELSE 0]
  /\ interrupts' = ConfirmTransportExit(interrupts)
  /\ UNCHANGED <<chat, requested, interrupter>>

(* The daemon stops at any point and starts again; the table, and the log  *)
(* of the session, are in the database.                                    *)
InterruptCrash ==
  /\ managed.child = "alive"
  /\ managed' = [managed EXCEPT !.child = "none", !.status = "stopped",
                                !.own = IF managed.logged THEN @ ELSE 0]
  /\ interrupter' = [h \in Interrupters |-> NoInterrupter]
  /\ UNCHANGED <<chat, interrupts, requested>>

-----------------------------------------------------------------------------
(* A list or a detail of the chat is read, and reconciled on the way out.  *)
Reconcile(v, age) ==
  /\ interrupts' = Decorate(AfterExit(v), v, age)
  /\ requested' = requested + (IF Reconcilable /\ LostRequest(v) THEN 1 ELSE 0)

ChatRead(v, age) ==
  /\ Reconcile(v, age)
  /\ UNCHANGED <<chat, managed, interrupter>>

(* isActiveSourceTurnAlreadyInterrupted, as the table is after the read.   *)
AlreadyInterrupted(table, t) ==
  \E k \in Key : IsLatestOf(table, k) /\ table[k].phase = "confirmed_process" /\ k[1] = t

(* While the child of a prompt runs, the reply may still be awaited; the   *)
(* active turn is then a target only if it is the turn of that prompt.     *)
Targets(table, v) ==
  IF v.phase # "active" \/ AlreadyInterrupted(table, v.turn) THEN {NoKey}
  ELSE {<<v.turn, "start">>}
         \cup (IF managed.child = "alive" /\ managed.status = "running"
               THEN {IF v.turn = managed.own THEN <<v.turn, "prompt">> ELSE NoKey}
               ELSE {})

(* readActiveSourceTurn: the window is wide enough for the start of the    *)
(* turn.                                                                   *)
ActiveTurnRead(h) ==
  /\ interrupter[h].step = "idle"
  /\ requested + Cardinality({i \in Interrupters : interrupter[i].step # "idle"}) < MaxInterrupts
  /\ \E v \in Views :
       /\ v.full /\ v.known
       /\ Reconcile(v, "young")
       /\ \E k \in Targets(interrupts', v) :
            interrupter' = [interrupter EXCEPT ![h] =
              [@ EXCEPT !.step = "read", !.target = k, !.view = IF k = NoKey THEN NoView ELSE v]]
  /\ UNCHANGED <<chat, managed>>

(* requestManaged: an open request of the same turn is shared.             *)
Shared(k) == interrupts[k].phase = "requested"

(* Variant: whoever fails takes the request back.                          *)
CancelByAnyone(table, k, rank) ==
  IF IsLatestOf(table, k) /\ table[k].phase = "requested" THEN Delete(table, k) ELSE table

(* cancelManagedRequest, by the one that created the row.                  *)
Cancel(table, k, rank) ==
  IF rank # 0 /\ IsLatestOf(table, k) /\ table[k].phase = "requested" /\ table[k].rank = rank
  THEN Delete(table, k) ELSE table

(* interruptStoreBackedSession up to its await: refused without a child;   *)
(* a session that is being stopped already refuses, too, and what was      *)
(* recorded is taken back in the same turn of the event loop.              *)
InterruptRefused(h) ==
  /\ interrupter[h].step = "read"
  /\ managed.child = "none"
  /\ interrupter' = [interrupter EXCEPT ![h] = NoInterrupter]
  /\ UNCHANGED <<chat, managed, interrupts, requested>>

InterruptAsked(h) ==
  /\ interrupter[h].step = "read"
  /\ managed.child = "alive"
  /\ LET k     == interrupter[h].target
         v     == interrupter[h].view
         new   == k # NoKey /\ ~Shared(k)
         rank  == IF new THEN requested + 1 ELSE 0
         asked == IF new THEN Upsert(interrupts, k, Request(k)) ELSE interrupts
     IN /\ new => requested < MaxInterrupts
        /\ requested' = IF new THEN rank ELSE requested
        /\ \E age \in IF new THEN {"young"} ELSE Ages :
             LET told == IF k = NoKey THEN asked ELSE Decorate(asked, v, age)
             IN IF managed.status # "running"
                THEN /\ interrupts' = IF k = NoKey THEN told
                                      ELSE Decorate(Cancel(told, k, rank), v, age)
                     /\ interrupter' = [interrupter EXCEPT ![h] = NoInterrupter]
                     /\ UNCHANGED managed
                ELSE /\ interrupts' = told
                     /\ interrupter' = [interrupter EXCEPT ![h] =
                          [@ EXCEPT !.step = "stopping", !.rank = rank]]
                     /\ \/ managed' = [managed EXCEPT !.status = "stopped",
                                                      !.logged = TRUE]
                        \/ managed' = [managed EXCEPT !.logged = TRUE]
  /\ UNCHANGED chat

(* The interrupt was delivered: to a one-shot process, which may have      *)
(* reported its exit, or as a key to a terminal.                           *)
InterruptDelivered(h) ==
  /\ interrupter[h].step = "stopping"
  /\ \E age \in Ages :
       interrupts' =
         IF interrupter[h].target = NoKey THEN interrupts
         ELSE Decorate(IF managed.child = "none" THEN ConfirmTransportExit(interrupts) ELSE interrupts,
                       interrupter[h].view, age)
  /\ interrupter' = [interrupter EXCEPT ![h] = NoInterrupter]
  /\ UNCHANGED <<chat, managed, requested>>

(* It was not: the process did not end, and the session is put back as it  *)
(* was, or a save failed.                                                  *)
InterruptFails(h) ==
  /\ interrupter[h].step = "stopping"
  /\ \/ managed' = [managed EXCEPT !.status = "running"]
     \/ managed' = managed
  /\ \E age \in Ages :
       interrupts' =
         IF interrupter[h].target = NoKey THEN interrupts
         ELSE Decorate(Cancel(interrupts, interrupter[h].target, interrupter[h].rank),
                       interrupter[h].view, age)
  /\ interrupter' = [interrupter EXCEPT ![h] = NoInterrupter]
  /\ UNCHANGED <<chat, requested>>

(* forceStopProcess: the child of another program, asked for while there   *)
(* is none of DeskCue's own, and recorded when the process is known to     *)
(* have ended.                                                             *)
ForceStopAsked(h) ==
  /\ interrupter[h].step = "read"
  /\ managed.child = "none"
  /\ interrupter' = [interrupter EXCEPT ![h].step = "forcing"]
  /\ UNCHANGED <<chat, managed, interrupts, requested>>

ForceStopDone(h) ==
  /\ interrupter[h].step = "forcing"
  /\ LET k == IF interrupter[h].target = NoKey THEN ForcedStop ELSE interrupter[h].target
     IN \/ /\ requested < MaxInterrupts
           /\ requested' = requested + 1
           /\ interrupts' = Upsert(interrupts, k,
                [Request(k) EXCEPT !.phase = "confirmed_process", !.outcome = "interrupted"])
        \/ UNCHANGED <<requested, interrupts>>
  /\ interrupter' = [interrupter EXCEPT ![h] = NoInterrupter]
  /\ UNCHANGED <<chat, managed>>

InterruptNext ==
  \/ TurnBegins \/ TurnEnds \/ PromptSent \/ TransportExits
  \/ InterruptCrash
  \/ \E v \in Views, age \in Ages \cup {"expired"} : ChatRead(v, age)
  \/ \E h \in Interrupters :
       \/ ActiveTurnRead(h) \/ InterruptRefused(h) \/ InterruptAsked(h)
       \/ InterruptDelivered(h) \/ InterruptFails(h)
       \/ ForceStopAsked(h) \/ ForceStopDone(h)

(* Somebody looks at the chat again and again, before its rows expire, with*)
(* the start of its latest turn in the window.                             *)
ChatReadInFull == \E v \in Views, age \in Ages : v.full /\ v.known /\ ChatRead(v, age)

InterruptFairness == WF_InterruptVars(ChatReadInFull)

InterruptSpec == InterruptInit /\ [][InterruptNext]_InterruptVars /\ InterruptFairness

-----------------------------------------------------------------------------
InterruptTypeOK ==
  /\ interrupts \in [Key -> Interrupt \cup {NoInterrupt}]
  /\ requested \in 0 .. MaxInterrupts
  /\ \A j, k \in Key :
       j # k /\ interrupts[j] # NoInterrupt => interrupts[j].rank # interrupts[k].rank

(* A row that the end of the process or the transcript has confirmed is    *)
(* not reopened, and the word of the transcript is not replaced by that of *)
(* the process; only a new request starts the row again.                   *)
ConfirmedStays ==
  [][\A k \in Key :
       LET old == interrupts[k]
           new == interrupts'[k]
       IN old.phase \in Confirmed /\ new.rank = old.rank =>
            /\ new.phase \in Confirmed
            /\ old.phase = "confirmed_source" => new.phase = "confirmed_source"]_InterruptVars

(* A request that fails takes back at most the row it created itself, of   *)
(* all the rows of the turn it was about: not the row that another request *)
(* of the same turn made and is still acting on.                           *)
OwnRequestTakenBack ==
  [][\A h \in Interrupters, k \in Key :
       /\ interrupter[h].step \in {"read", "stopping"}
       /\ interrupter'[h].step = "idle"
       /\ k[1] = interrupter[h].target[1] /\ k # ForcedStop
       /\ interrupts[k].phase = "requested" /\ interrupts'[k] = NoInterrupt
       => interrupts[k].rank = interrupter[h].rank \/ InterruptCrash]_InterruptVars

(* A stop whose process has ended does not stay open, also if the daemon   *)
(* went down before it could write down the exit.                          *)
StopIsConfirmed ==
  (Reconcilable /\ \E k \in Key : IsLatestOf(interrupts, k) /\ interrupts[k].phase \in Open)
    ~> ~(Reconcilable /\ \E k \in Key : IsLatestOf(interrupts, k) /\ interrupts[k].phase \in Open)

(* A row that the transcript confirmed has the outcome of its own turn.    *)
OutcomeOfItsTurn ==
  \A k \in Key \ {ForcedStop} :
    interrupts[k].phase = "confirmed_source" => interrupts[k].outcome = chat.phase[k[1]]
=============================================================================
