----------------------------- MODULE SessionStore -----------------------------
(***************************************************************************)
(* SessionRepository, DeskCuePersistence and the requests that open a chat *)
(* of a source agent: sessions live in memory, are marked dirty when they  *)
(* change and are written by a chain of saves, any of which may fail.  The *)
(* daemon closes or crashes and comes back with the rows it wrote.         *)
(*                                                                         *)
(* The sessions here are those of one chat, in a workspace that is         *)
(* registered; an opening makes at most one, which is named after it.      *)
(***************************************************************************)
EXTENDS Naturals, Sequences, FiniteSets

CONSTANTS Opens,                \* the requests to open the chat
          MaxChanges,           \* changes of sessions that are not openings
          MaxSaveFailures,      \* writes that fail
          MaxStarts             \* how often the daemon is started again

(* An opening is told from what else changes or saves a session.           *)
ASSUME OpensAssumption ==
  Opens \cap {"none", "change", "start", "others", "timer", "close"} = {}

VARIABLES agent,                \* whose chat it is: "claude" or "codex"
          backend,              \* "up", "closing", "closed" or "down"
          memory,               \* sessions: what they hold
          stamp,                \* sessionPersistenceRevisions
          marks,                \* the dirty and the partial (lightweight) ones
          disk,                 \* the table: what its rows hold
          saves,                \* persistChain, and whether persistTimer is set
          open,                 \* the openings
          creation,             \* attachedSessionCreations: who runs, or none
          past                  \* the clock of the revisions, history, bounds

StoreVars == <<agent, backend, memory, stamp, marks, disk, saves, open, creation, past>>

Absent == [rev |-> 0, by |-> "none"]

NoOpening == "none"

StoreInit ==
  /\ agent \in {"claude", "codex"}
  /\ backend = "up"
  /\ memory = [s \in Opens |-> Absent]
  /\ stamp = [s \in Opens |-> 0]
  /\ marks = [dirty |-> {}, partial |-> {}]
  /\ disk = [s \in Opens |-> Absent]
  /\ saves = [chain |-> <<>>, timer |-> FALSE]
  /\ open = [o \in Opens |-> [step |-> "idle", session |-> o, old |-> Absent, rev |-> 0]]
  /\ creation = NoOpening
  /\ past = [clock |-> 0, changes |-> 0, failures |-> 0, starts |-> 0, closedAt |-> 0]

-----------------------------------------------------------------------------
Working == backend \in {"up", "closing"}

Present == {s \in Opens : memory[s] # Absent}

Tick == past.clock + 1

(* setSession, updateSession: a session that is not lightweight is dirty.  *)
Put(s, what) ==
  /\ memory' = [memory EXCEPT ![s] = what]
  /\ stamp' = [stamp EXCEPT ![s] = Tick]
  /\ marks' = [marks EXCEPT !.dirty = IF s \in marks.partial THEN @ ELSE @ \cup {s}]

Written(by) == [rev |-> Tick, by |-> by]

(* persistNow: one more save on the chain; schedulePersist: the timer.     *)
NotStarted == [s \in {} |-> 0]

Save(by) == [saves EXCEPT !.chain = Append(@, [by |-> by, started |-> FALSE, saved |-> NotStarted])]

Scheduled == [saves EXCEPT !.timer = @ \/ backend = "up"]

(* materializeSession reads the row of a lightweight session.              *)
Materialized(s) ==
  IF s \in marks.partial
  THEN /\ memory' = [memory EXCEPT ![s] = disk[s]]
       /\ stamp' = [stamp EXCEPT ![s] = Tick]
       /\ marks' = [dirty |-> marks.dirty \ {s}, partial |-> marks.partial \ {s}]
       /\ past' = [past EXCEPT !.clock = Tick]
  ELSE UNCHANGED <<memory, stamp, marks, past>>

SessionIsRead(s) ==
  /\ backend = "up" /\ s \in Present /\ s \in marks.partial
  /\ Materialized(s)
  /\ UNCHANGED <<agent, backend, disk, saves, open, creation>>

(* Anything else that updates a session, and then saves or schedules one:  *)
(* a log line, a reply state, a prompt.  It has read the session first.    *)
SessionChanges(s, saving) ==
  /\ Working /\ s \in Present \ marks.partial
  /\ past.changes < MaxChanges
  /\ Put(s, Written("change"))
  /\ saves' = IF saving THEN Save("change") ELSE Scheduled
  /\ past' = [past EXCEPT !.clock = Tick, !.changes = @ + 1]
  /\ UNCHANGED <<agent, backend, disk, open, creation>>

(* A workspace or a session of another chat is saved, on the same chain.   *)
OthersSave ==
  /\ Working
  /\ past.changes < MaxChanges
  /\ saves' = Save("others")
  /\ past' = [past EXCEPT !.changes = @ + 1]
  /\ UNCHANGED <<agent, backend, memory, stamp, marks, disk, open, creation>>

-----------------------------------------------------------------------------
(* The openings.  All that share a creation are answered as it is.         *)
Settle(o, step, s) ==
  LET joined == {j \in Opens : open[j].step = "joined" /\ creation = o}
  IN [j \in Opens |-> IF j \in joined \cup {o} THEN [open[j] EXCEPT !.step = step, !.session = s]
                      ELSE open[j]]

Released(o) == IF creation = o THEN NoOpening ELSE creation

Answered(o, s) ==
  /\ open' = Settle(o, "answered", s)
  /\ creation' = Released(o)

(* reuseExistingClaudeSession: who owns the chat may have changed.         *)
Reused(o, s) ==
  /\ UNCHANGED <<memory, stamp, marks, saves, past>>
  /\ Answered(o, s)

ReconciledOwner(o, s) ==
  /\ Put(s, Written(o))
  /\ open' = [open EXCEPT ![o] = [step |-> "reconciling", session |-> s,
                                  old |-> memory[s], rev |-> Tick]]
  /\ saves' = Save(o)
  /\ past' = [past EXCEPT !.clock = Tick]

ReuseAttached(o) ==
  \E s \in Present : \/ Reused(o, s)
                     \/ ReconciledOwner(o, s) /\ creation' = o

(* createReadOnlyClaudeSession, up to its first await.                     *)
Joins(o) ==
  /\ creation # NoOpening
  /\ open' = [open EXCEPT ![o].step = "joined"]
  /\ UNCHANGED <<memory, stamp, marks, saves, creation, past>>

Prepares(o) ==
  /\ Present = {}
  /\ open' = [open EXCEPT ![o].step = "preparing"]
  /\ UNCHANGED <<memory, stamp, marks, saves, past>>

(* Variant: every opening runs by itself.                                  *)
ClaudeOpensAlone(o) ==
  /\ agent = "claude" /\ backend = "up" /\ open[o].step = "idle"
  /\ \/ ReuseAttached(o)
     \/ Prepares(o) /\ creation' = o
  /\ UNCHANGED <<agent, backend, disk>>

ClaudeOpens(o) ==
  /\ agent = "claude" /\ backend = "up" /\ open[o].step = "idle"
  /\ \/ Joins(o)
     \/ creation = NoOpening /\ ReuseAttached(o)
     \/ creation = NoOpening /\ Prepares(o) /\ creation' = o
  /\ UNCHANGED <<agent, backend, disk>>

(* The workspace and the state of Git are known: claimAttachedSession      *)
(* looks again, and adds the session.                                      *)
Created(o) ==
  /\ Put(o, Written(o))
  /\ open' = [open EXCEPT ![o].step = "creating", ![o].rev = Tick]
  /\ past' = [past EXCEPT !.clock = Tick]

ClaudePrepared(o) ==
  /\ agent = "claude" /\ Working /\ open[o].step = "preparing"
  /\ \/ ReuseAttached(o)
     \/ Present = {} /\ Created(o) /\ saves' = Save(o) /\ UNCHANGED creation
  /\ UNCHANGED <<agent, backend, disk>>

(* createReadOnlyCodexSession neither shares the creation nor looks again. *)
CodexOpens(o) ==
  /\ agent = "codex" /\ backend = "up" /\ open[o].step = "idle"
  /\ \/ \E s \in Present : /\ Materialized(s)
                           /\ open' = Settle(o, "answered", s)
                           /\ UNCHANGED saves
     \/ Prepares(o)
  /\ UNCHANGED <<agent, backend, disk, creation>>

CodexPrepared(o) ==
  /\ agent = "codex" /\ Working /\ open[o].step = "preparing"
  /\ Created(o)
  /\ saves' = Save(o)
  /\ UNCHANGED <<agent, backend, disk, creation>>

PreparationFails(o) ==
  /\ Working /\ open[o].step = "preparing"
  /\ open' = Settle(o, "refused", o)
  /\ creation' = Released(o)
  /\ UNCHANGED <<agent, backend, memory, stamp, marks, disk, saves, past>>

(* Its save is done.  A new Claude session that nobody has changed gets    *)
(* its first log line.                                                     *)
IsCurrent(o) == memory[open[o].session].rev = open[o].rev

OpeningSaved(o) ==
  /\ Working /\ open[o].step \in {"created", "reconciled"}
  /\ IF agent = "claude" /\ open[o].step = "created" /\ IsCurrent(o)
     THEN /\ Put(o, Written("change"))
          /\ saves' = Scheduled
          /\ past' = [past EXCEPT !.clock = Tick]
     ELSE UNCHANGED <<memory, stamp, marks, saves, past>>
  /\ Answered(o, open[o].session)
  /\ UNCHANGED <<agent, backend, disk>>

(* Its save has failed: removeSessionIfCurrent, restoreSessionIfCurrent.   *)
(* A save that was queued behind it has run by then, or has not.           *)
Removed(o) ==
  /\ memory' = [memory EXCEPT ![o] = Absent]
  /\ marks' = [marks EXCEPT !.dirty = @ \ {o}]
  /\ UNCHANGED <<stamp, past>>

Restored(o) ==
  /\ Put(open[o].session, open[o].old)
  /\ past' = [past EXCEPT !.clock = Tick]

(* Variant: what has changed meanwhile is overwritten too.                 *)
RolledBackAnyway(o) ==
  CASE agent = "codex" -> UNCHANGED <<memory, stamp, marks, past>>
    [] agent = "claude" /\ open[o].step = "uncreated" -> Removed(o)
    [] OTHER -> Restored(o)

RolledBack(o) ==
  CASE agent = "codex" \/ ~IsCurrent(o) -> UNCHANGED <<memory, stamp, marks, past>>
    [] agent = "claude" /\ IsCurrent(o) /\ open[o].step = "uncreated" -> Removed(o)
    [] OTHER -> Restored(o)

OpeningNotSaved(o) ==
  /\ Working /\ open[o].step \in {"uncreated", "unreconciled"}
  /\ RolledBack(o)
  /\ open' = Settle(o, "refused", open[o].session)
  /\ creation' = Released(o)
  /\ UNCHANGED <<agent, backend, disk, saves>>

-----------------------------------------------------------------------------
(* performPersistNow for the first of the chain.  What it saves is what is *)
(* dirty when it starts; it is no longer dirty if it is still the same     *)
(* when the promise of the save resumes.                                   *)
Saver == Head(saves.chain)

Followed(by, steps) ==
  IF by \in Opens THEN [open EXCEPT ![by].step = steps[@]] ELSE open

TimerFires ==
  /\ Working /\ saves.timer
  /\ saves' = [Save("timer") EXCEPT !.timer = FALSE]
  /\ UNCHANGED <<agent, backend, memory, stamp, marks, disk, open, creation, past>>

SaveWrites ==
  /\ Working /\ saves.chain # <<>> /\ ~Saver.started
  /\ LET written == marks.dirty \ marks.partial
     IN /\ disk' = [s \in Opens |-> IF s \in written THEN memory[s] ELSE disk[s]]
        /\ saves' = [chain |-> <<[Saver EXCEPT !.started = TRUE,
                                               !.saved = [s \in written |-> stamp[s]]]>>
                                 \o Tail(saves.chain),
                     timer |-> FALSE]
  /\ UNCHANGED <<agent, backend, memory, stamp, marks, open, creation, past>>

(* Variant: what has changed since is taken for saved.                     *)
SavedAnyway == DOMAIN Saver.saved

(* markPersistenceSnapshotsPersisted.                                      *)
SavedUnchanged == {s \in DOMAIN Saver.saved : Saver.saved[s] = stamp[s]}

SaveEnds ==
  /\ Working /\ saves.chain # <<>> /\ Saver.started
  /\ marks' = [marks EXCEPT !.dirty = @ \ SavedUnchanged]
  /\ saves' = [saves EXCEPT !.chain = Tail(@)]
  /\ open' = Followed(Saver.by, [creating |-> "created", reconciling |-> "reconciled"])
  /\ backend' = IF Saver.by = "close" THEN "closed" ELSE backend
  /\ UNCHANGED <<agent, memory, stamp, disk, creation, past>>

SaveFails ==
  /\ Working /\ saves.chain # <<>> /\ ~Saver.started
  /\ marks.dirty \ marks.partial # {} \/ Saver.by = "others"
  /\ past.failures < MaxSaveFailures
  /\ saves' = [chain |-> Tail(saves.chain), timer |-> FALSE]
  /\ open' = Followed(Saver.by, [creating |-> "uncreated", reconciling |-> "unreconciled"])
  /\ backend' = IF Saver.by = "close" THEN "down" ELSE backend
  /\ past' = [past EXCEPT !.failures = @ + 1]
  /\ UNCHANGED <<agent, memory, stamp, marks, disk, creation>>

-----------------------------------------------------------------------------
(* Variant: close only cancels the timer.                                  *)
CloseForgets ==
  /\ backend = "up"
  /\ backend' = "closed"
  /\ saves' = [saves EXCEPT !.timer = FALSE]
  /\ past' = [past EXCEPT !.closedAt = past.clock]
  /\ UNCHANGED <<agent, memory, stamp, marks, disk, open, creation>>

(* close: no more timer, and a last save behind those of the chain.        *)
CloseBegins ==
  /\ backend = "up"
  /\ backend' = "closing"
  /\ saves' = [Save("close") EXCEPT !.timer = FALSE]
  /\ past' = [past EXCEPT !.closedAt = past.clock]
  /\ UNCHANGED <<agent, memory, stamp, marks, disk, open, creation>>

DaemonStops ==
  /\ backend # "down"
  /\ backend' = "down"
  /\ UNCHANGED <<agent, memory, stamp, marks, disk, saves, open, creation, past>>

(* hydrate: the sessions are the rows, lightweight if they are of a Codex  *)
(* chat that has ended.  Some are given another state (hydratePersisted-   *)
(* Sessions, then the recovery of prompts, which clears what the journal   *)
(* has settled); a full save writes what is not lightweight.               *)
DaemonStarts(partial, changed) ==
  LET rows == {s \in Opens : disk[s] # Absent}
      now  == [s \in Opens |-> IF s \in changed THEN Written("start") ELSE disk[s]]
  IN /\ backend = "down" /\ past.starts < MaxStarts
     /\ partial \subseteq rows /\ (agent = "claude" => partial = {})
     /\ changed \subseteq rows
     /\ backend' = "up"
     /\ memory' = now
     /\ stamp' = [s \in Opens |-> IF s \in rows THEN Tick ELSE 0]
     /\ marks' = [dirty |-> {}, partial |-> partial]
     /\ disk' = [s \in Opens |-> IF s \in partial THEN disk[s] ELSE now[s]]
     /\ saves' = [chain |-> <<>>, timer |-> FALSE]
     /\ open' = [o \in Opens |-> IF open[o].step \in {"idle", "answered", "refused"} THEN open[o]
                                 ELSE [open[o] EXCEPT !.step = "lost"]]
     /\ creation' = NoOpening
     /\ past' = [past EXCEPT !.clock = Tick, !.starts = @ + 1]
     /\ UNCHANGED agent

StoreNext ==
  \/ \E o \in Opens : \/ ClaudeOpens(o) \/ ClaudePrepared(o)
                      \/ CodexOpens(o) \/ CodexPrepared(o)
                      \/ PreparationFails(o) \/ OpeningSaved(o) \/ OpeningNotSaved(o)
  \/ \E s \in Opens : SessionIsRead(s)
  \/ \E s \in Opens, saving \in BOOLEAN : SessionChanges(s, saving)
  \/ OthersSave \/ TimerFires \/ SaveWrites \/ SaveEnds \/ SaveFails
  \/ CloseBegins \/ DaemonStops
  \/ \E partial, changed \in SUBSET Opens : DaemonStarts(partial, changed)

StoreSpec == StoreInit /\ [][StoreNext]_StoreVars

-----------------------------------------------------------------------------
(* What the table lacks is dirty, so the next save writes it: a change     *)
(* that falls between a save and the moment it is marked is not forgotten  *)
(* (markPersistenceSnapshotsPersisted, sessionRepository.ts).              *)
UnsavedIsDirty ==
  Working => \A s \in Present \ marks.partial : memory[s] # disk[s] => s \in marks.dirty

(* Nobody is given a session of a Claude chat that is then taken back: a   *)
(* creation that is not saved is undone before anyone is told of it, and   *)
(* then all who shared it are refused (runAttachedSessionCreation,         *)
(* removeSessionIfCurrent).                                                *)
NothingTakenBack ==
  [][\A o \in Opens :
       agent = "claude" /\ open[o].step = "answered" /\ backend' = backend
       /\ open[o].session \in Present => memory'[open[o].session] # Absent]_StoreVars

(* After a close that ended well, nothing that was there when it began is  *)
(* unsaved: the last save waits for those before it and includes what they *)
(* failed to write.                                                        *)
ClosedIsSaved ==
  backend = "closed" => \A s \in marks.dirty : stamp[s] > past.closedAt

(* Only an opening takes a change back, and only its own: a rollback never *)
(* overwrites what somebody else has written meanwhile.                    *)
NothingUndone ==
  [][\A s \in Opens \ marks.partial :
       backend' = backend /\ memory'[s].rev < memory[s].rev => memory[s].by \in Opens]_StoreVars

(* The test claudeReadOnlySessionService.test.ts:596: an opening that was  *)
(* refused can be retried cleanly, so a Claude chat has one session.       *)
RetryIsClean == agent = "claude" => Cardinality(Present) <= 1

(* docs/daemon-api.md:528: attaching creates or reuses a session, so a     *)
(* Codex chat that is opened twice has one.                                *)
CreatesOrReuses == agent = "codex" => Cardinality(Present) <= 1

(* The test storeBackedSessionBackend.test.ts:358: a restart clears what   *)
(* is stale of a session.  What it cleared does not come back when the     *)
(* session is read.                                                        *)
StaysCleared ==
  [][\A s \in Opens : s \in marks.partial /\ backend' = backend =>
       ~(memory[s].by = "start" /\ memory'[s].rev < memory[s].rev)]_StoreVars
===============================================================================
