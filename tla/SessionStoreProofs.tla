--------------------------- MODULE SessionStoreProofs ---------------------------
(***************************************************************************)
(* Theorems about SessionStore, for every set of openings and every bound  *)
(* on changes, failed saves and restarts.                                  *)
(***************************************************************************)
EXTENDS SessionStore, TLAPS

Step == {"idle", "joined", "preparing", "creating", "created", "uncreated",
         "reconciling", "reconciled", "unreconciled", "answered", "refused", "lost"}

(* An opening that has made nothing yet; one whose session is made or      *)
(* changed and not yet saved; one that is over.                            *)
Fresh       == {"idle", "preparing"}
Creating    == {"creating", "created", "uncreated"}
Reconciling == {"reconciling", "reconciled", "unreconciled"}
Over        == {"answered", "refused", "lost"}

Content == [rev : Nat, by : Opens \cup {"none", "change", "start"}]

Opening == [step : Step, session : Opens, old : Content, rev : Nat]

SaveOf == [by : Opens \cup {"change", "others", "timer", "close"}, started : BOOLEAN,
           saved : UNION {[written -> Nat] : written \in SUBSET Opens}]

StoreTypes ==
  /\ agent \in {"claude", "codex"}
  /\ backend \in {"up", "closing", "closed", "down"}
  /\ memory \in [Opens -> Content]
  /\ stamp \in [Opens -> Nat]
  /\ marks \in [dirty : SUBSET Opens, partial : SUBSET Opens]
  /\ disk \in [Opens -> Content]
  /\ saves \in [chain : Seq(SaveOf), timer : BOOLEAN]
  /\ open \in [Opens -> Opening]
  /\ creation \in Opens \cup {NoOpening}
  /\ past \in [clock : Nat, changes : Nat, failures : Nat, starts : Nat, closedAt : Nat]

(* A lightweight session is not dirty, and every stamp is past.            *)
MarksInv ==
  /\ marks.dirty \cap marks.partial = {}
  /\ agent = "claude" => marks.partial = {}
  /\ past.closedAt <= past.clock
  /\ \A s \in Opens : stamp[s] <= past.clock

(* Only the first save of the chain has started, and the save of the close *)
(* is on it only once the close has begun.                                 *)
ChainInv ==
  /\ \A i \in 2 .. Len(saves.chain) : ~saves.chain[i].started
  /\ backend = "up" => \A i \in 1 .. Len(saves.chain) : saves.chain[i].by # "close"

(* What a save has written is what is in memory, as long as the stamp is   *)
(* the same; what it has not written has changed since the close began.    *)
SaveInv ==
  Working /\ saves.chain # <<>> /\ Saver.started =>
    /\ \A s \in DOMAIN Saver.saved :
         /\ Saver.saved[s] <= past.clock
         /\ Saver.saved[s] = stamp[s] => memory[s] \in {Absent, disk[s]}
    /\ Saver.by = "close" =>
         \A s \in marks.dirty : stamp[s] > past.closedAt \/ s \in SavedUnchanged

(* A revision that an opening has written is that opening's.               *)
Known(x) ==
  /\ x.rev <= past.clock
  /\ \A o \in Opens : open[o].step \in Creating \cup Reconciling /\ x.rev = open[o].rev =>
                        x.by = o

OpeningInv ==
  /\ \A s \in Opens : Known(memory[s]) /\ Known(disk[s]) /\ Known(open[s].old)
  /\ \A o \in Opens : open[o].step \in Creating \cup Reconciling =>
                        open[o].rev \in 1 .. past.clock
  /\ \A o \in Opens : open[o].step \in Fresh \cup Creating => open[o].session = o

(* The openings of a Claude chat that are under way are one, and who has   *)
(* an answer, or is about to, has the session of an opening that is over.  *)
SharedInv ==
  /\ \A s \in Opens : memory[s] # Absent \/ disk[s] # Absent => open[s].step \in Creating \cup Over
  /\ agent = "claude" => \A o \in Opens :
       /\ open[o].step \in Creating \cup Reconciling \cup {"preparing"} => creation = o
       /\ open[o].step \in Reconciling => open[o].old # Absent
       /\ open[o].step \in Reconciling \cup {"answered"} => open[open[o].session].step \in Over

(* An opening waits for one save, and the save is for an opening that      *)
(* waits.                                                                  *)
QueueInv ==
  \A i \in 1 .. Len(saves.chain) : saves.chain[i].by \in Opens =>
    /\ open[saves.chain[i].by].step \in {"creating", "reconciling"}
    /\ \A j \in 1 .. Len(saves.chain) : saves.chain[j].by = saves.chain[i].by => j = i

StoreInv ==
  /\ StoreTypes /\ MarksInv /\ ChainInv /\ SaveInv /\ OpeningInv /\ SharedInv /\ QueueInv
  /\ UnsavedIsDirty /\ ClosedIsSaved

-----------------------------------------------------------------------------
(* Chains of saves.                                                        *)

LEMMA ChainAppend ==
  ASSUME NEW S, NEW c \in Seq(S), NEW x \in S
  PROVE  /\ Append(c, x) \in Seq(S) /\ Append(c, x) # <<>>
         /\ Len(Append(c, x)) = Len(c) + 1
         /\ \A i \in 1 .. Len(c) : Append(c, x)[i] = c[i]
         /\ Append(c, x)[Len(c) + 1] = x
         /\ Head(Append(c, x)) = IF c = <<>> THEN x ELSE Head(c)
  OBVIOUS

LEMMA ChainTail ==
  ASSUME NEW S, NEW c \in Seq(S), c # <<>>
  PROVE  /\ Tail(c) \in Seq(S) /\ Head(c) \in S /\ Head(c) = c[1]
         /\ Len(c) \in Nat \ {0} /\ Len(Tail(c)) = Len(c) - 1
         /\ \A i \in 1 .. Len(Tail(c)) : Tail(c)[i] = c[i + 1]
  OBVIOUS

LEMMA ChainReplace ==
  ASSUME NEW S, NEW c \in Seq(S), c # <<>>, NEW x \in S
  PROVE  LET d == <<x>> \o Tail(c)
         IN  /\ d \in Seq(S) /\ d # <<>> /\ Head(d) = x
             /\ Len(d) = Len(c)
             /\ d[1] = x /\ \A i \in 2 .. Len(c) : d[i] = c[i]
  OBVIOUS

-----------------------------------------------------------------------------
(* What any request does to the sessions and to the chain of saves: it     *)
(* writes a session, reads one from the table or takes one away, and at    *)
(* most asks for one more save.                                            *)
Writes ==
  \E s \in Opens, x \in Content : Put(s, x) /\ past'.clock = Tick

Reads ==
  \E s \in marks.partial :
    /\ memory' = [memory EXCEPT ![s] = disk[s]]
    /\ stamp' = [stamp EXCEPT ![s] = Tick]
    /\ marks' = [dirty |-> marks.dirty \ {s}, partial |-> marks.partial \ {s}]
    /\ past'.clock = Tick

Removes ==
  \E s \in Opens :
    /\ memory' = [memory EXCEPT ![s] = Absent]
    /\ marks' = [marks EXCEPT !.dirty = @ \ {s}]
    /\ stamp' = stamp /\ past'.clock = past.clock

Rests == UNCHANGED <<memory, stamp, marks>> /\ past'.clock = past.clock

Asks ==
  \E by \in Opens \cup {"change", "others", "timer"} :
    saves'.chain = Append(saves.chain, [by |-> by, started |-> FALSE, saved |-> NotStarted])

Ordinary ==
  /\ Writes \/ Reads \/ Removes \/ Rests
  /\ saves'.chain = saves.chain \/ Asks
  /\ past'.closedAt = past.closedAt
  /\ Working /\ UNCHANGED <<agent, backend, disk>>

LEMMA AbsentContent == Absent \in Content
  BY DEF Absent, Content

(* The sessions after such a step.                                         *)
LEMMA OrdinaryMemory ==
  ASSUME StoreTypes, MarksInv, Ordinary
  PROVE  /\ memory' \in [Opens -> Content] /\ stamp' \in [Opens -> Nat]
         /\ marks' \in [dirty : SUBSET Opens, partial : SUBSET Opens]
         /\ past'.clock \in Nat /\ past.clock <= past'.clock
         /\ marks'.dirty \cap marks'.partial = {}
         /\ marks'.partial \subseteq marks.partial
         /\ \A s \in Opens : stamp'[s] <= past'.clock
         /\ \A s \in Opens : stamp'[s] = stamp[s] =>
              memory'[s] \in {memory[s], Absent} /\ (s \in marks'.dirty => s \in marks.dirty)
         /\ \A s \in Opens : stamp'[s] # stamp[s] => stamp'[s] = past.clock + 1
         /\ \A s \in Opens \ marks'.partial : s \notin marks'.dirty =>
              \/ memory'[s] \in {Absent, disk[s]}
              \/ memory'[s] = memory[s] /\ s \notin marks.dirty \cup marks.partial
  <1>1. /\ past.clock \in Nat /\ Tick = past.clock + 1 /\ Tick \in Nat
        /\ \A s \in Opens : stamp[s] # Tick
    BY DEF StoreTypes, MarksInv, Tick
  <1>2. CASE Writes
    <2>1. PICK s \in Opens, x \in Content : Put(s, x) /\ past'.clock = Tick
      BY <1>2 DEF Writes
    <2>2. /\ memory' \in [Opens -> Content] /\ memory'[s] = x
          /\ \A r \in Opens \ {s} : memory'[r] = memory[r]
          /\ stamp' \in [Opens -> Nat] /\ stamp'[s] = Tick
          /\ \A r \in Opens \ {s} : stamp'[r] = stamp[r]
      BY <1>1, <2>1 DEF Put, StoreTypes
    <2>3. /\ marks' \in [dirty : SUBSET Opens, partial : SUBSET Opens]
          /\ marks'.partial = marks.partial
          /\ marks'.dirty = IF s \in marks.partial THEN marks.dirty ELSE marks.dirty \cup {s}
      BY <2>1 DEF Put, StoreTypes
    <2> QED BY <1>1, <2>1, <2>2, <2>3 DEF MarksInv
  <1>3. CASE Reads
    <2>1. PICK s \in marks.partial :
            /\ memory' = [memory EXCEPT ![s] = disk[s]]
            /\ stamp' = [stamp EXCEPT ![s] = Tick]
            /\ marks' = [dirty |-> marks.dirty \ {s}, partial |-> marks.partial \ {s}]
            /\ past'.clock = Tick
      BY <1>3 DEF Reads
    <2> QED BY <1>1, <2>1 DEF StoreTypes, MarksInv
  <1>4. CASE Removes
    <2>1. PICK s \in Opens :
            /\ memory' = [memory EXCEPT ![s] = Absent]
            /\ marks' = [marks EXCEPT !.dirty = @ \ {s}]
            /\ stamp' = stamp /\ past'.clock = past.clock
      BY <1>4 DEF Removes
    <2>2. /\ memory' \in [Opens -> Content] /\ memory'[s] = Absent
          /\ \A r \in Opens \ {s} : memory'[r] = memory[r]
      BY <2>1, AbsentContent DEF StoreTypes
    <2>3. /\ marks' \in [dirty : SUBSET Opens, partial : SUBSET Opens]
          /\ marks'.partial = marks.partial /\ marks'.dirty = marks.dirty \ {s}
          /\ stamp \in [Opens -> Nat]
      BY <2>1 DEF StoreTypes
    <2> QED BY <1>1, <2>1, <2>2, <2>3 DEF MarksInv
  <1>5. CASE Rests
    BY <1>1, <1>5 DEF Rests, StoreTypes, MarksInv
  <1> QED BY <1>2, <1>3, <1>4, <1>5 DEF Ordinary

(* The chain after such a step.                                            *)
LEMMA OrdinaryChain ==
  ASSUME StoreTypes, ChainInv, Ordinary, saves' \in [chain : {saves'.chain}, timer : BOOLEAN]
  PROVE  /\ saves' \in [chain : Seq(SaveOf), timer : BOOLEAN] /\ ChainInv'
         /\ saves'.chain # <<>> /\ Saver'.started =>
              saves.chain # <<>> /\ Saver' = Saver
  <1>1. saves.chain \in Seq(SaveOf) /\ backend' = backend
    BY DEF StoreTypes, Ordinary
  <1>2. CASE saves'.chain = saves.chain
    BY <1>1, <1>2 DEF ChainInv, Saver
  <1>3. CASE Asks
    <2>1. PICK by \in Opens \cup {"change", "others", "timer"} :
            saves'.chain = Append(saves.chain, [by |-> by, started |-> FALSE, saved |-> NotStarted])
      BY <1>3 DEF Asks
    <2> DEFINE x == [by |-> by, started |-> FALSE, saved |-> NotStarted]
               c == saves.chain
    <2>2. NotStarted \in [{} -> Nat] /\ {} \in SUBSET Opens
      BY DEF NotStarted
    <2>3. x \in SaveOf /\ ~x.started /\ x.by = by
      BY <2>2 DEF SaveOf
    <2>4. by # "close"
      BY OpensAssumption
    <2> HIDE DEF x
    <2>5. saves'.chain = Append(c, x)
      BY <2>1 DEF x
    <2>6. /\ Append(c, x) \in Seq(SaveOf) /\ Append(c, x) # <<>>
          /\ Len(Append(c, x)) = Len(c) + 1 /\ Len(c) \in Nat
          /\ \A i \in 1 .. Len(c) : Append(c, x)[i] = c[i]
          /\ Append(c, x)[Len(c) + 1] = x
          /\ Head(Append(c, x)) = IF c = <<>> THEN x ELSE Head(c)
      BY <1>1, <2>3, ChainAppend
    <2>7. ChainInv'
      BY <1>1, <2>3, <2>4, <2>5, <2>6 DEF ChainInv
    <2> QED BY <1>1, <2>3, <2>5, <2>6, <2>7 DEF Saver
  <1> QED BY <1>2, <1>3 DEF Ordinary

(* A change between a save and its end gives the session another stamp.    *)
LEMMA OrdinarySaves ==
  ASSUME StoreInv, Ordinary, saves' \in [chain : {saves'.chain}, timer : BOOLEAN]
  PROVE  ChainInv' /\ SaveInv' /\ UnsavedIsDirty' /\ ClosedIsSaved'
  <1>1. /\ past.clock \in Nat /\ past.closedAt \in Nat /\ past.closedAt <= past.clock
        /\ past'.clock \in Nat /\ past.clock <= past'.clock
        /\ memory' \in [Opens -> Content] /\ stamp' \in [Opens -> Nat] /\ stamp \in [Opens -> Nat]
        /\ marks'.dirty \subseteq Opens
        /\ \A s \in Opens : stamp[s] <= past.clock
        /\ \A s \in Opens : stamp'[s] = stamp[s] =>
             memory'[s] \in {memory[s], Absent} /\ (s \in marks'.dirty => s \in marks.dirty)
        /\ \A s \in Opens : stamp'[s] # stamp[s] => stamp'[s] = past.clock + 1
        /\ \A s \in Opens \ marks'.partial : s \notin marks'.dirty =>
             \/ memory'[s] \in {Absent, disk[s]}
             \/ memory'[s] = memory[s] /\ s \notin marks.dirty \cup marks.partial
    BY OrdinaryMemory DEF StoreInv, StoreTypes, MarksInv
  <1>2. /\ disk' = disk /\ past'.closedAt = past.closedAt /\ Working /\ backend' = backend
    BY DEF Ordinary
  <1>3. ChainInv' /\ (saves'.chain # <<>> /\ Saver'.started => saves.chain # <<>> /\ Saver' = Saver)
    BY OrdinaryChain DEF StoreInv
  <1>4. SaveInv'
    <2> SUFFICES ASSUME saves'.chain # <<>>, Saver'.started
                 PROVE  /\ \A s \in DOMAIN Saver.saved :
                             /\ Saver.saved[s] <= past'.clock
                             /\ Saver.saved[s] = stamp'[s] => memory'[s] \in {Absent, disk[s]}
                        /\ Saver.by = "close" =>
                             \A s \in marks'.dirty :
                               \/ stamp'[s] > past.closedAt
                               \/ s \in DOMAIN Saver.saved /\ Saver.saved[s] = stamp'[s]
      BY <1>2, <1>3 DEF SaveInv, SavedUnchanged
    <2>1. Saver \in SaveOf /\ saves.chain # <<>> /\ Saver.started
      BY <1>3, ChainTail DEF StoreInv, StoreTypes, Saver
    <2>2. /\ \A s \in DOMAIN Saver.saved : Saver.saved[s] \in Nat /\ s \in Opens
      BY <2>1 DEF SaveOf
    <2>3. /\ \A s \in DOMAIN Saver.saved :
               /\ Saver.saved[s] <= past.clock
               /\ Saver.saved[s] = stamp[s] => memory[s] \in {Absent, disk[s]}
          /\ Saver.by = "close" =>
               \A s \in marks.dirty :
                 \/ stamp[s] > past.closedAt
                 \/ s \in DOMAIN Saver.saved /\ Saver.saved[s] = stamp[s]
      BY <1>2, <2>1 DEF StoreInv, SaveInv, SavedUnchanged
    <2>4. ASSUME NEW s \in DOMAIN Saver.saved
          PROVE  /\ Saver.saved[s] <= past'.clock
                 /\ Saver.saved[s] = stamp'[s] => memory'[s] \in {Absent, disk[s]}
      <3>1. s \in Opens /\ Saver.saved[s] \in Nat /\ Saver.saved[s] <= past.clock
        BY <2>2, <2>3
      <3>2. Saver.saved[s] <= past'.clock
        BY <1>1, <3>1
      <3>3. ASSUME Saver.saved[s] = stamp'[s] PROVE memory'[s] \in {Absent, disk[s]}
        <4>1. stamp'[s] = stamp[s]
          BY <1>1, <3>1, <3>3
        <4>2. memory[s] \in {Absent, disk[s]} /\ memory'[s] \in {memory[s], Absent}
          BY <1>1, <2>3, <3>1, <3>3, <4>1
        <4> QED BY <4>2
      <3> QED BY <3>2, <3>3
    <2>5. ASSUME NEW s \in marks'.dirty, Saver.by = "close"
          PROVE  \/ stamp'[s] > past.closedAt
                 \/ s \in DOMAIN Saver.saved /\ Saver.saved[s] = stamp'[s]
      BY <1>1, <2>3, <2>5
    <2> QED BY <2>4, <2>5
  <1>5. UnsavedIsDirty'
    BY <1>1, <1>2 DEF StoreInv, UnsavedIsDirty, Present, Working
  <1>6. ClosedIsSaved'
    BY <1>2 DEF ClosedIsSaved, Working
  <1> QED BY <1>3, <1>4, <1>5, <1>6

-----------------------------------------------------------------------------
(* What an action does to the openings.                                    *)

(* The requests are such steps.                                            *)
LEMMA MaterializedDoes ==
  ASSUME StoreTypes, NEW s \in Opens, Materialized(s)
  PROVE  /\ Reads \/ Rests
         /\ past' \in [clock : Nat, changes : Nat, failures : Nat, starts : Nat, closedAt : Nat]
         /\ past'.closedAt = past.closedAt
  <1>1. CASE s \in marks.partial
    <2>1. /\ memory' = [memory EXCEPT ![s] = disk[s]]
          /\ stamp' = [stamp EXCEPT ![s] = Tick]
          /\ marks' = [dirty |-> marks.dirty \ {s}, partial |-> marks.partial \ {s}]
          /\ past' = [past EXCEPT !.clock = Tick]
      BY <1>1 DEF Materialized
    <2>2. /\ past' \in [clock : Nat, changes : Nat, failures : Nat, starts : Nat, closedAt : Nat]
          /\ past'.closedAt = past.closedAt /\ past'.clock = Tick
      <3>1. past \in [clock : Nat, changes : Nat, failures : Nat, starts : Nat, closedAt : Nat]
        BY DEF StoreTypes
      <3>2. Tick \in Nat
        BY <3>1 DEF Tick
      <3> QED BY <2>1, <3>1, <3>2
    <2> QED BY <1>1, <2>1, <2>2 DEF Reads
  <1>2. CASE s \notin marks.partial
    BY <1>2 DEF Materialized, Rests, StoreTypes
  <1> QED BY <1>1, <1>2

LEMMA SavesAre ==
  ASSUME StoreTypes
  PROVE  /\ \A by \in Opens \cup {"change", "others", "timer"} : saves' = Save(by) =>
              /\ Asks /\ saves' \in [chain : {saves'.chain}, timer : BOOLEAN]
              /\ saves'.chain = Append(saves.chain, [by |-> by, started |-> FALSE, saved |-> NotStarted])
              /\ saves'.chain[Len(saves'.chain)].by = by
         /\ saves' = Scheduled =>
              saves'.chain = saves.chain /\ saves' \in [chain : {saves'.chain}, timer : BOOLEAN]
         /\ saves' = saves =>
              saves'.chain = saves.chain /\ saves' \in [chain : {saves'.chain}, timer : BOOLEAN]
  <1>1. saves \in [chain : Seq(SaveOf), timer : BOOLEAN]
    BY DEF StoreTypes
  <1>2. ASSUME NEW by \in Opens \cup {"change", "others", "timer"}, saves' = Save(by)
        PROVE  /\ Asks /\ saves' \in [chain : {saves'.chain}, timer : BOOLEAN]
               /\ saves'.chain = Append(saves.chain, [by |-> by, started |-> FALSE, saved |-> NotStarted])
               /\ saves'.chain[Len(saves'.chain)].by = by
    <2>1. /\ saves'.chain = Append(saves.chain, [by |-> by, started |-> FALSE, saved |-> NotStarted])
          /\ saves' \in [chain : {saves'.chain}, timer : BOOLEAN]
      BY <1>1, <1>2 DEF Save
    <2>2. saves'.chain[Len(saves'.chain)].by = by
      BY <1>1, <2>1
    <2> QED BY <2>1, <2>2 DEF Asks
  <1>3. saves' = Scheduled =>
          saves'.chain = saves.chain /\ saves' \in [chain : {saves'.chain}, timer : BOOLEAN]
    BY <1>1 DEF Scheduled
  <1>4. saves' = saves =>
          saves'.chain = saves.chain /\ saves' \in [chain : {saves'.chain}, timer : BOOLEAN]
    BY <1>1
  <1> QED BY <1>2, <1>3, <1>4

LEMMA ClockTicks ==
  ASSUME StoreTypes,
         \/ past' = [past EXCEPT !.clock = Tick]
         \/ past' = [past EXCEPT !.clock = Tick, !.changes = @ + 1]
  PROVE  /\ past' \in [clock : Nat, changes : Nat, failures : Nat, starts : Nat, closedAt : Nat]
         /\ past'.closedAt = past.closedAt /\ past.clock <= past'.clock
         /\ past'.clock = Tick
  <1>1. past \in [clock : Nat, changes : Nat, failures : Nat, starts : Nat, closedAt : Nat]
    BY DEF StoreTypes
  <1>2. Tick \in Nat /\ past.clock <= Tick /\ past.changes + 1 \in Nat
    BY <1>1 DEF Tick
  <1>3. CASE past' = [past EXCEPT !.clock = Tick]
    BY <1>1, <1>2, <1>3
  <1>4. CASE past' = [past EXCEPT !.clock = Tick, !.changes = @ + 1]
    BY <1>1, <1>2, <1>4
  <1> QED BY <1>3, <1>4

LEMMA PutDoes ==
  ASSUME StoreTypes, NEW s \in Opens, NEW x \in Content, Put(s, x), past'.clock = Tick
  PROVE  /\ Writes /\ memory'[s] = x
         /\ \A r \in Opens \ {s} : memory'[r] = memory[r]
  BY DEF Put, Writes, StoreTypes

LEMMA WrittenIs ==
  ASSUME StoreTypes, NEW by \in Opens \cup {"change", "start"}
  PROVE  Written(by) \in Content /\ Written(by).rev = Tick /\ Written(by).by = by
  BY DEF Written, Content, Tick, StoreTypes

(* One that is settled answers or refuses all that share it.               *)
LEMMA SettleDoes ==
  ASSUME StoreTypes, NEW o \in Opens, NEW s \in Opens, NEW step \in {"answered", "refused"}
  PROVE  LET next == Settle(o, step, s)
         IN  /\ next \in [Opens -> Opening]
             /\ next[o].step = step /\ next[o].session = s
             /\ \A j \in Opens : next[j].old = open[j].old /\ next[j].rev = open[j].rev
             /\ \A j \in Opens \ {o} :
                  \/ next[j] = open[j]
                  \/ open[j].step = "joined" /\ next[j].step = step /\ next[j].session = s
  <1> DEFINE next == Settle(o, step, s)
             joined == {j \in Opens : open[j].step = "joined" /\ creation = o}
  <1>1. /\ open \in [Opens -> Opening] /\ step \in Step
    BY DEF StoreTypes, Step
  <1>0. \A j \in Opens :
          next[j] = IF j \in joined \cup {o} THEN [open[j] EXCEPT !.step = step, !.session = s]
                    ELSE open[j]
    BY DEF Settle
  <1>2. \A j \in Opens :
          /\ next[j] = [open[j] EXCEPT !.step = step, !.session = s] \/ next[j] = open[j]
          /\ j = o => next[j] = [open[j] EXCEPT !.step = step, !.session = s]
          /\ open[j].step # "joined" /\ j # o => next[j] = open[j]
    <2> HIDE DEF next
    <2> QED BY <1>0
  <1>3. next = [j \in Opens |-> next[j]]
    BY DEF Settle
  <1> HIDE DEF next
  <1>4. \A j \in Opens :
          LET n == [open[j] EXCEPT !.step = step, !.session = s]
          IN  /\ n \in Opening /\ n.step = step /\ n.session = s
              /\ n.old = open[j].old /\ n.rev = open[j].rev
    <2> TAKE j \in Opens
    <2>1. open[j] \in [step : Step, session : Opens, old : Content, rev : Nat]
      BY <1>1 DEF Opening
    <2>2. [open[j] EXCEPT !.step = step, !.session = s] \in
            [step : Step, session : Opens, old : Content, rev : Nat]
      BY <1>1, <2>1
    <2> QED BY <2>1, <2>2 DEF Opening
  <1>5. next \in [Opens -> Opening]
    BY <1>1, <1>2, <1>3, <1>4
  <1>6. /\ next[o].step = step /\ next[o].session = s
        /\ \A j \in Opens : next[j].old = open[j].old /\ next[j].rev = open[j].rev
    BY <1>2, <1>4
  <1>7. \A j \in Opens \ {o} :
          \/ next[j] = open[j]
          \/ open[j].step = "joined" /\ next[j].step = step /\ next[j].session = s
    BY <1>2, <1>4
  <1> QED BY <1>5, <1>6, <1>7 DEF next

(* An opening o goes on, and with it those that share its creation.        *)
Turns(o) ==
  /\ open' \in [Opens -> Opening]
  /\ \A j \in Opens \ {o} :
       \/ open'[j] = open[j]
       \/ /\ open[j].step = "joined" /\ open'[j].step \in {"answered", "refused"}
          /\ open'[j].step = open'[o].step /\ open'[j].session = open'[o].session
          /\ open'[j].old = open[j].old
  /\ open[o].step \notin Over
  /\ open'[o].step \in Creating \cup Reconciling =>
       \/ open[o].step \in Creating \cup Reconciling /\ open'[o].rev = open[o].rev
       \/ open'[o].rev = Tick /\ past'.clock = Tick
  /\ open'[o].old = open[o].old \/ \E s \in Opens : open'[o].old = memory[s]
  /\ open'[o].step \in Fresh \cup Creating => open'[o].session = o
  /\ open[o].step \in Creating => open'[o].step \in Creating \cup Over

(* What a session may hold afterwards.                                     *)
Comes(x) ==
  \/ \E s \in Opens : x \in {memory[s], disk[s], open[s].old, Absent}
  \/ /\ x.rev = Tick /\ past'.clock = Tick
     /\ \A j \in Opens : open'[j].step \in Creating \cup Reconciling /\ open'[j].rev = Tick =>
                           x.by = j

LEMMA OrdinaryKeeps ==
  ASSUME StoreInv, Ordinary,
         saves' \in [chain : {saves'.chain}, timer : BOOLEAN],
         past' \in [clock : Nat, changes : Nat, failures : Nat, starts : Nat, closedAt : Nat],
         open' \in [Opens -> Opening], creation' \in Opens \cup {NoOpening}
  PROVE  StoreTypes' /\ MarksInv' /\ ChainInv' /\ SaveInv' /\ UnsavedIsDirty' /\ ClosedIsSaved'
  <1>1. StoreTypes /\ MarksInv /\ ChainInv
    BY DEF StoreInv
  <1>2. UNCHANGED <<agent, backend, disk>> /\ past'.closedAt = past.closedAt
    BY DEF Ordinary
  <1>3. StoreTypes'
    <2>1. saves' \in [chain : Seq(SaveOf), timer : BOOLEAN]
      BY <1>1, OrdinaryChain
    <2>2. /\ memory' \in [Opens -> Content] /\ stamp' \in [Opens -> Nat]
          /\ marks' \in [dirty : SUBSET Opens, partial : SUBSET Opens]
      BY <1>1, OrdinaryMemory
    <2>3. /\ agent' \in {"claude", "codex"} /\ backend' \in {"up", "closing", "closed", "down"}
          /\ disk' \in [Opens -> Content]
      BY <1>1, <1>2 DEF StoreTypes
    <2> QED BY <2>1, <2>2, <2>3 DEF StoreTypes
  <1>4. MarksInv'
    <2>1. /\ past'.clock \in Nat /\ past.clock <= past'.clock
          /\ marks'.dirty \cap marks'.partial = {}
          /\ marks'.partial \subseteq marks.partial
          /\ \A s \in Opens : stamp'[s] <= past'.clock
      BY <1>1, OrdinaryMemory
    <2>2. past.clock \in Nat /\ past.closedAt \in Nat
      BY <1>1 DEF StoreTypes
    <2> QED BY <1>1, <1>2, <2>1, <2>2 DEF MarksInv
  <1> QED BY <1>3, <1>4, OrdinarySaves

LEMMA OpeningKept ==
  ASSUME StoreInv, disk' = disk, past'.clock \in Nat, past.clock <= past'.clock,
         open' = open \/ \E o \in Opens : Turns(o),
         \A s \in Opens : Comes(memory'[s])
  PROVE  OpeningInv'
  <1>0. /\ past.clock \in Nat /\ Tick = past.clock + 1 /\ open \in [Opens -> Opening]
        /\ memory \in [Opens -> Content] /\ disk \in [Opens -> Content]
    BY DEF StoreInv, StoreTypes, Tick
  <1>1. /\ \A s \in Opens : Known(memory[s]) /\ Known(disk[s]) /\ Known(open[s].old)
        /\ \A o \in Opens : open[o].step \in Creating \cup Reconciling =>
                              open[o].rev \in 1 .. past.clock
        /\ \A o \in Opens : open[o].step \in Fresh \cup Creating => open[o].session = o
    BY DEF StoreInv, OpeningInv
  <1>2. \A j \in Opens : open'[j].step \in Creating \cup Reconciling =>
          \/ open[j].step \in Creating \cup Reconciling /\ open'[j].rev = open[j].rev
          \/ open'[j].rev = Tick /\ past'.clock = Tick
    BY DEF Turns, Creating, Reconciling
  <1>3. \A j \in Opens : open'[j].step \in Fresh \cup Creating => open'[j].session = j
    BY <1>1 DEF Turns, Fresh, Creating
  <1>4. \A j \in Opens : open'[j].old = open[j].old \/ \E s \in Opens : open'[j].old = memory[s]
    BY DEF Turns
  <1>5. ASSUME NEW x \in Content, Known(x)
        PROVE  /\ x.rev <= past'.clock
               /\ \A j \in Opens : open'[j].step \in Creating \cup Reconciling /\ x.rev = open'[j].rev =>
                                    x.by = j
    <2>1. x.rev \in Nat /\ x.rev <= past.clock
      BY <1>5 DEF Known, Content
    <2>2. x.rev <= past'.clock /\ x.rev # Tick
      BY <1>0, <2>1
    <2> QED BY <1>2, <1>5, <2>2 DEF Known
  <1>6. ASSUME NEW s \in Opens
        PROVE  /\ memory'[s].rev <= past'.clock
               /\ \A j \in Opens : open'[j].step \in Creating \cup Reconciling
                                    /\ memory'[s].rev = open'[j].rev => memory'[s].by = j
    <2>1. CASE \E r \in Opens : memory'[s] \in {memory[r], disk[r], open[r].old}
      <3>1. PICK r \in Opens : memory'[s] \in {memory[r], disk[r], open[r].old}
        BY <2>1
      <3>2. memory[r] \in Content /\ disk[r] \in Content /\ open[r].old \in Content
        BY <1>0 DEF Opening
      <3> QED BY <1>1, <1>5, <3>1, <3>2
    <2>2. CASE memory'[s] = Absent
      <3>1. Known(Absent)
        BY <1>0, <1>1 DEF Known, Absent
      <3> QED BY <1>5, <2>2, <3>1, AbsentContent
    <2>3. CASE /\ memory'[s].rev = Tick /\ past'.clock = Tick
               /\ \A j \in Opens : open'[j].step \in Creating \cup Reconciling /\ open'[j].rev = Tick =>
                                    memory'[s].by = j
      BY <1>0, <2>3
    <2> QED BY <2>1, <2>2, <2>3 DEF Comes
  <1>7. ASSUME NEW s \in Opens
        PROVE  /\ disk'[s].rev <= past'.clock
               /\ \A j \in Opens : open'[j].step \in Creating \cup Reconciling
                                    /\ disk'[s].rev = open'[j].rev => disk'[s].by = j
    BY <1>0, <1>1, <1>5
  <1>8. ASSUME NEW s \in Opens
        PROVE  /\ open'[s].old.rev <= past'.clock
               /\ \A j \in Opens : open'[j].step \in Creating \cup Reconciling
                                    /\ open'[s].old.rev = open'[j].rev => open'[s].old.by = j
    <2>1. PICK x \in Content : x = open'[s].old /\ Known(x)
      <3>1. CASE open'[s].old = open[s].old
        BY <1>0, <1>1, <3>1 DEF Opening
      <3>2. CASE \E r \in Opens : open'[s].old = memory[r]
        BY <1>0, <1>1, <3>2
      <3> QED BY <1>4, <3>1, <3>2
    <2> QED BY <1>5, <2>1
  <1>9. \A j \in Opens : open'[j].step \in Creating \cup Reconciling => open'[j].rev \in 1 .. past'.clock
    <2> SUFFICES ASSUME NEW j \in Opens, open'[j].step \in Creating \cup Reconciling
                 PROVE  open'[j].rev \in 1 .. past'.clock
      OBVIOUS
    <2>1. CASE open[j].step \in Creating \cup Reconciling /\ open'[j].rev = open[j].rev
      <3>1. open[j].rev \in 1 .. past.clock
        BY <1>1, <2>1
      <3> QED BY <1>0, <2>1, <3>1
    <2>2. CASE open'[j].rev = Tick /\ past'.clock = Tick
      BY <1>0, <2>2
    <2> QED BY <1>2, <2>1, <2>2
  <1> QED BY <1>3, <1>6, <1>7, <1>8, <1>9 DEF OpeningInv, Known

(* The save of an opening that begins to wait is the first it has.         *)
LEMMA QueueKept ==
  ASSUME StoreInv, open' = open \/ \E o \in Opens : Turns(o),
         \/ /\ \/ saves'.chain = saves.chain
               \/ Asks /\ saves'.chain[Len(saves'.chain)].by \notin Opens
            /\ \A j \in Opens : open[j].step \in {"creating", "reconciling"} =>
                                  open'[j].step = open[j].step
         \/ \E o \in Opens :
              /\ saves'.chain = Append(saves.chain, [by |-> o, started |-> FALSE, saved |-> NotStarted])
              /\ open[o].step \notin {"creating", "reconciling"}
              /\ open'[o].step \in {"creating", "reconciling"}
              /\ \A j \in Opens : open[j].step \in {"creating", "reconciling"} =>
                                    open'[j].step = open[j].step
  PROVE  QueueInv'
  <1> DEFINE c == saves.chain
             d == saves'.chain
  <1>1. c \in Seq(SaveOf)
    BY DEF StoreInv, StoreTypes
  <1>2. \A i \in 1 .. Len(c) : c[i].by \in Opens =>
          /\ open[c[i].by].step \in {"creating", "reconciling"}
          /\ \A j \in 1 .. Len(c) : c[j].by = c[i].by => j = i
    BY DEF StoreInv, QueueInv
  <1>3. CASE d = c /\ \A j \in Opens : open[j].step \in {"creating", "reconciling"} =>
                                         open'[j].step = open[j].step
    BY <1>2, <1>3 DEF QueueInv
  <1>4. ASSUME NEW by \in Opens \cup {"change", "others", "timer"},
               d = Append(c, [by |-> by, started |-> FALSE, saved |-> NotStarted]),
               \A j \in Opens : open[j].step \in {"creating", "reconciling"} =>
                                  open'[j].step = open[j].step,
               by \in Opens => /\ open[by].step \notin {"creating", "reconciling"}
                               /\ open'[by].step \in {"creating", "reconciling"}
        PROVE  QueueInv'
    <2> DEFINE x == [by |-> by, started |-> FALSE, saved |-> NotStarted]
    <2>1. x \in SaveOf /\ x.by = by
      <3>1. NotStarted \in [{} -> Nat] /\ {} \in SUBSET Opens
        BY DEF NotStarted
      <3> QED BY <3>1 DEF SaveOf
    <2>2. d = Append(c, x)
      BY <1>4
    <2> HIDE DEF x, c, d
    <2>3. /\ Len(d) = Len(c) + 1 /\ Len(c) \in Nat
          /\ \A i \in 1 .. Len(c) : d[i] = c[i]
          /\ d[Len(c) + 1] = x
      BY <1>1, <2>1, <2>2, ChainAppend
    <2>4. ASSUME NEW i \in 1 .. Len(d), d[i].by \in Opens
          PROVE  /\ open'[d[i].by].step \in {"creating", "reconciling"}
                 /\ \A j \in 1 .. Len(d) : d[j].by = d[i].by => j = i
      <3>1. \A k \in 1 .. Len(d) : k \in 1 .. Len(c) \/ k = Len(c) + 1
        BY <2>3
      <3>2. \A k \in 1 .. Len(c) : c[k].by \in Opens => c[k].by # by
        BY <1>2, <1>4
      <3>3. CASE i \in 1 .. Len(c)
        BY <1>2, <1>4, <2>1, <2>3, <2>4, <3>1, <3>2, <3>3
      <3>4. CASE i = Len(c) + 1
        BY <1>4, <2>1, <2>3, <2>4, <3>1, <3>2, <3>4
      <3> QED BY <3>1, <3>3, <3>4
    <2> QED BY <2>4 DEF QueueInv, d
  <1>5. CASE \E o \in Opens :
               /\ saves'.chain = Append(saves.chain, [by |-> o, started |-> FALSE, saved |-> NotStarted])
               /\ open[o].step \notin {"creating", "reconciling"}
               /\ open'[o].step \in {"creating", "reconciling"}
               /\ \A j \in Opens : open[j].step \in {"creating", "reconciling"} =>
                                     open'[j].step = open[j].step
    BY <1>4, <1>5
  <1>6. CASE /\ Asks /\ d[Len(d)].by \notin Opens
             /\ \A j \in Opens : open[j].step \in {"creating", "reconciling"} =>
                                   open'[j].step = open[j].step
    <2>1. PICK by \in Opens \cup {"change", "others", "timer"} :
            d = Append(c, [by |-> by, started |-> FALSE, saved |-> NotStarted])
      BY <1>6 DEF Asks
    <2>2. d[Len(d)].by = by
      BY <1>1, <2>1
    <2> QED BY <1>4, <1>6, <2>1, <2>2
  <1> QED BY <1>3, <1>5, <1>6

(* Sessions appear with an opening that creates one; the openings of a     *)
(* Claude chat that are under way stay one.                                *)
LEMMA SharedKept ==
  ASSUME StoreInv, disk' = disk, agent' = agent, NEW o \in Opens, Turns(o),
         \A s \in Opens : memory'[s] # Absent =>
           memory[s] # Absent \/ disk[s] # Absent \/ open'[s].step \in Creating,
         agent = "claude" =>
           /\ open'[o].step \in Creating \cup Reconciling \cup {"preparing"} => creation' = o
           /\ creation' = creation \/ creation \in {o, NoOpening}
           /\ open'[o].step \in Reconciling => open'[o].old # Absent
           /\ open'[o].step \in Reconciling \cup {"answered"} =>
                open'[open'[o].session].step \in Over
  PROVE  SharedInv'
  <1>1. /\ \A s \in Opens : memory[s] # Absent \/ disk[s] # Absent => open[s].step \in Creating \cup Over
        /\ agent = "claude" => \A j \in Opens :
             /\ open[j].step \in Creating \cup Reconciling \cup {"preparing"} => creation = j
             /\ open[j].step \in Reconciling => open[j].old # Absent
             /\ open[j].step \in Reconciling \cup {"answered"} => open[open[j].session].step \in Over
    BY DEF StoreInv, SharedInv
  <1>2. /\ \A j \in Opens : open[j].step \in Over => open'[j] = open[j]
        /\ \A j \in Opens : open[j].step \in Creating \cup Over => open'[j].step \in Creating \cup Over
        /\ \A j \in Opens \ {o} :
             open'[j] = open[j] \/ /\ open'[j].step \in {"answered", "refused"}
                                   /\ open'[j].step = open'[o].step
                                   /\ open'[j].session = open'[o].session
    BY DEF Turns, Creating, Over
  <1>3. /\ open \in [Opens -> Opening] /\ open' \in [Opens -> Opening]
        /\ \A j \in Opens : open[j].session \in Opens
    BY DEF Turns, StoreInv, StoreTypes, Opening
  <1>4. \A s \in Opens : memory'[s] # Absent \/ disk'[s] # Absent => open'[s].step \in Creating \cup Over
    BY <1>1, <1>2
  <1>5. ASSUME agent = "claude", NEW j \in Opens
        PROVE  /\ open'[j].step \in Creating \cup Reconciling \cup {"preparing"} => creation' = j
               /\ open'[j].step \in Reconciling => open'[j].old # Absent
               /\ open'[j].step \in Reconciling \cup {"answered"} => open'[open'[j].session].step \in Over
    <2>1. CASE j = o
      BY <1>5, <2>1
    <2>2. CASE j # o /\ open'[j] = open[j]
      <3>1. ASSUME open'[j].step \in Creating \cup Reconciling \cup {"preparing"}
            PROVE  creation' = j
        <4>1. creation = j /\ j # NoOpening
          BY <1>1, <1>5, <2>2, <3>1, OpensAssumption DEF NoOpening
        <4> QED BY <1>5, <2>2, <4>1
      <3> QED BY <1>1, <1>2, <1>3, <1>5, <2>2, <3>1
    <2>3. CASE /\ j # o /\ open'[j].step \in {"answered", "refused"}
               /\ open'[j].step = open'[o].step
               /\ open'[j].session = open'[o].session
      BY <1>5, <2>3 DEF Creating, Reconciling
    <2> QED BY <1>2, <2>1, <2>2, <2>3
  <1> QED BY <1>4, <1>5 DEF SharedInv

(* Nothing is opened meanwhile.                                            *)
LEMMA SharedStays ==
  ASSUME StoreInv, disk' = disk, agent' = agent, UNCHANGED <<open, creation>>,
         \A s \in Opens : memory'[s] # Absent => memory[s] # Absent \/ disk[s] # Absent
  PROVE  SharedInv'
  BY DEF StoreInv, SharedInv

-----------------------------------------------------------------------------
(* The openings.                                                           *)
LEMMA OpeningSteps ==
  ASSUME StoreInv, NEW o \in Opens, Turns(o), Working, UNCHANGED <<agent, backend, disk>>,
         Writes \/ Reads \/ Removes \/ Rests,
         \A s \in Opens :
           \/ memory'[s] = memory[s]
           \/ Comes(memory'[s]) /\ (memory[s] # Absent \/ disk[s] # Absent
                                    \/ open'[s].step \in Creating \/ memory'[s] = Absent),
         past' \in [clock : Nat, changes : Nat, failures : Nat, starts : Nat, closedAt : Nat],
         past'.closedAt = past.closedAt, past.clock <= past'.clock,
         \/ /\ saves' = saves \/ saves' = Scheduled
            /\ open[o].step \notin {"creating", "reconciling"}
         \/ /\ saves' = Save(o)
            /\ open[o].step \notin {"creating", "reconciling"}
            /\ open'[o].step \in {"creating", "reconciling"},
         creation' \in Opens \cup {NoOpening},
         agent = "claude" =>
           /\ open'[o].step \in Creating \cup Reconciling \cup {"preparing"} => creation' = o
           /\ creation' = creation \/ creation \in {o, NoOpening}
           /\ open'[o].step \in Reconciling => open'[o].old # Absent
           /\ open'[o].step \in Reconciling \cup {"answered"} =>
                open'[open'[o].session].step \in Over
  PROVE  StoreInv'
  <1>1. StoreTypes /\ o \in Opens \cup {"change", "others", "timer"}
    BY DEF StoreInv
  <1>2. /\ saves' \in [chain : {saves'.chain}, timer : BOOLEAN]
        /\ saves'.chain = saves.chain \/ Asks
    BY <1>1, SavesAre
  <1>3. Ordinary
    BY <1>2 DEF Ordinary
  <1>4. open' \in [Opens -> Opening]
    BY DEF Turns
  <1>5. StoreTypes' /\ MarksInv' /\ ChainInv' /\ SaveInv' /\ UnsavedIsDirty' /\ ClosedIsSaved'
    BY <1>2, <1>3, <1>4, OrdinaryKeeps
  <1>6. \A j \in Opens : open[j].step \in {"creating", "reconciling"} => open'[j].step = open[j].step
    BY DEF Turns
  <1>7. QueueInv'
    <2>1. \/ /\ saves'.chain = saves.chain
          \/ /\ saves'.chain = Append(saves.chain, [by |-> o, started |-> FALSE, saved |-> NotStarted])
             /\ open[o].step \notin {"creating", "reconciling"}
             /\ open'[o].step \in {"creating", "reconciling"}
      BY <1>1, SavesAre
    <2> QED BY <1>6, <2>1, QueueKept
  <1>8. OpeningInv'
    <2>1. \A s \in Opens : Comes(memory'[s])
      BY DEF Comes
    <2> QED BY <2>1, OpeningKept
  <1>9. SharedInv'
    BY SharedKept
  <1> QED BY <1>5, <1>7, <1>8, <1>9 DEF StoreInv

LEMMA OwnerIsOver ==
  ASSUME StoreInv, agent = "claude", NEW o \in Opens, open[o].step \in {"idle", "preparing"},
         creation \in {o, NoOpening}, NEW s \in Present
  PROVE  s \in Opens /\ open[s].step \in Over /\ memory[s] # Absent
  BY OpensAssumption DEF StoreInv, SharedInv, Present, Creating, NoOpening

LEMMA SettleTurns ==
  ASSUME StoreTypes, NEW o \in Opens, open[o].step \notin Over, NEW s \in Opens,
         NEW step \in {"answered", "refused"}, open' = Settle(o, step, s)
  PROVE  /\ Turns(o) /\ open'[o].step = step /\ open'[o].session = s
         /\ \A j \in Opens : open[j].step \in Over => open'[j].step \in Over
  <1>1. /\ open' \in [Opens -> Opening]
        /\ open'[o].step = step /\ open'[o].session = s
        /\ \A j \in Opens : open'[j].old = open[j].old /\ open'[j].rev = open[j].rev
        /\ \A j \in Opens \ {o} :
             \/ open'[j] = open[j]
             \/ open[j].step = "joined" /\ open'[j].step = step /\ open'[j].session = s
    BY SettleDoes
  <1>2. step \in Over /\ step \notin Fresh \cup Creating \cup Reconciling /\ "joined" \notin Over
    BY DEF Fresh, Creating, Reconciling, Over
  <1>3. Turns(o)
    BY <1>1, <1>2 DEF Turns
  <1> QED BY <1>1, <1>2, <1>3

LEMMA JoinsKeeps ==
  ASSUME StoreInv, Working, NEW o \in Opens, open[o].step = "idle",
         Joins(o), UNCHANGED <<agent, backend, disk>>
  PROVE  StoreInv'
  <1>1. StoreTypes
    BY DEF StoreInv
  <1>2. Turns(o) /\ open'[o].step = "joined"
    BY <1>1 DEF Joins, Turns, StoreTypes, Fresh, Opening, Step, Creating, Reconciling, Over
  <1>3. creation' = creation /\ creation' \in Opens \cup {NoOpening}
    BY <1>1 DEF Joins, StoreTypes
  <1>4. /\ memory' = memory /\ Rests /\ saves' = saves /\ past' = past
        /\ past \in [clock : Nat, changes : Nat, failures : Nat, starts : Nat, closedAt : Nat]
    BY <1>1 DEF Joins, Rests, StoreTypes
  <1> QED BY <1>2, <1>3, <1>4, OpeningSteps DEF Creating, Reconciling

LEMMA PreparesKeeps ==
  ASSUME StoreInv, Working, NEW o \in Opens, open[o].step = "idle",
         Prepares(o), UNCHANGED <<agent, backend, disk>>,
         \/ agent = "claude" /\ creation = NoOpening /\ creation' = o
         \/ agent # "claude" /\ creation' = creation
  PROVE  StoreInv'
  <1>1. StoreTypes
    BY DEF StoreInv
  <1>2. Turns(o) /\ open'[o].step = "preparing"
    <2>1. open[o].session = o
      BY DEF StoreInv, OpeningInv, Fresh
    <2> QED BY <1>1, <2>1 DEF Prepares, Turns, StoreTypes, Opening, Step, Fresh, Creating, Reconciling, Over
  <1>3. creation' \in Opens \cup {NoOpening}
    BY <1>1 DEF StoreTypes
  <1>4. /\ memory' = memory /\ Rests /\ saves' = saves /\ past' = past
        /\ past \in [clock : Nat, changes : Nat, failures : Nat, starts : Nat, closedAt : Nat]
    BY <1>1 DEF Prepares, Rests, StoreTypes
  <1> QED BY <1>2, <1>3, <1>4, OpeningSteps DEF Creating, Reconciling

LEMMA ReuseKeeps ==
  ASSUME StoreInv, Working, agent = "claude", NEW o \in Opens, open[o].step \in {"idle", "preparing"},
         creation \in {o, NoOpening}, ReuseAttached(o), UNCHANGED <<agent, backend, disk>>
  PROVE  StoreInv'
  <1>1. StoreTypes /\ open[o].step \notin Over \cup {"creating", "reconciling"}
    BY DEF StoreInv, Over
  <1>2. PICK s \in Present : Reused(o, s) \/ (ReconciledOwner(o, s) /\ creation' = o)
    BY DEF ReuseAttached
  <1>3. s \in Opens /\ open[s].step \in Over /\ memory[s] # Absent
    BY OwnerIsOver
  <1>4. CASE Reused(o, s)
    <2>1. open' = Settle(o, "answered", s)
      BY <1>4 DEF Reused, Answered
    <2>2. /\ Turns(o) /\ open'[o].step = "answered" /\ open'[o].session = s
          /\ open'[s].step \in Over
      BY <1>1, <1>3, <2>1, SettleTurns
    <2>3. creation' \in Opens \cup {NoOpening}
      BY <1>1, <1>4 DEF Reused, Answered, Released, StoreTypes
    <2>4. /\ memory' = memory /\ Rests /\ saves' = saves /\ past' = past
          /\ past \in [clock : Nat, changes : Nat, failures : Nat, starts : Nat, closedAt : Nat]
      BY <1>1, <1>4 DEF Reused, Rests, StoreTypes
    <2> QED BY <1>1, <2>2, <2>3, <2>4, OpeningSteps DEF Creating, Reconciling
  <1>5. CASE ReconciledOwner(o, s) /\ creation' = o
    <2>1. /\ past' = [past EXCEPT !.clock = Tick] /\ saves' = Save(o) /\ Put(s, Written(o))
          /\ open' = [open EXCEPT ![o] = [step |-> "reconciling", session |-> s,
                                          old |-> memory[s], rev |-> Tick]]
      BY <1>5 DEF ReconciledOwner
    <2>2. /\ past' \in [clock : Nat, changes : Nat, failures : Nat, starts : Nat, closedAt : Nat]
          /\ past'.closedAt = past.closedAt /\ past.clock <= past'.clock /\ past'.clock = Tick
      BY <1>1, <2>1, ClockTicks
    <2>3. Written(o) \in Content /\ Written(o).rev = Tick /\ Written(o).by = o
      BY <1>1, WrittenIs
    <2>4. /\ Writes /\ memory'[s] = Written(o)
          /\ \A r \in Opens \ {s} : memory'[r] = memory[r]
      BY <1>1, <1>3, <2>1, <2>2, <2>3, PutDoes
    <2>5. /\ open \in [Opens -> Opening] /\ memory[s] \in Content /\ Tick \in Nat
          /\ past.clock \in Nat /\ Tick = past.clock + 1
      BY <1>1, <1>3 DEF StoreTypes, Tick
    <2>6. /\ open' \in [Opens -> Opening] /\ open'[o].step = "reconciling" /\ open'[o].session = s
          /\ open'[o].old = memory[s] /\ open'[o].rev = Tick
          /\ \A j \in Opens \ {o} : open'[j] = open[j]
      BY <1>3, <2>1, <2>5 DEF Opening, Step
    <2>7. Turns(o)
      BY <1>1, <1>3, <2>2, <2>6 DEF Turns, Fresh, Creating, Reconciling, Over
    <2>8. Comes(memory'[s])
      <3>1. \A j \in Opens : open[j].step \in Creating \cup Reconciling => open[j].rev # Tick
        BY <2>5 DEF StoreInv, OpeningInv
      <3> QED BY <2>2, <2>3, <2>4, <2>6, <3>1 DEF Comes
    <2>9. /\ open'[s].step \in Over \/ s = o
      BY <1>3, <2>6
    <2> QED BY <1>1, <1>3, <1>5, <2>1, <2>2, <2>4, <2>6, <2>7, <2>8, <2>9, OpeningSteps
         DEF Creating, Reconciling, Over
  <1> QED BY <1>2, <1>4, <1>5

LEMMA CreatedKeeps ==
  ASSUME StoreInv, Working, NEW o \in Opens, open[o].step = "preparing",
         Created(o), saves' = Save(o), UNCHANGED <<agent, backend, disk, creation>>
  PROVE  StoreInv'
  <1>1. /\ StoreTypes /\ open[o].step \notin Over \cup {"creating", "reconciling"} \cup Creating
        /\ creation' \in Opens \cup {NoOpening}
    BY DEF StoreInv, StoreTypes, Over, Creating
  <1>2. /\ past' = [past EXCEPT !.clock = Tick] /\ Put(o, Written(o))
        /\ open' = [open EXCEPT ![o].step = "creating", ![o].rev = Tick]
    BY DEF Created
  <1>3. /\ past' \in [clock : Nat, changes : Nat, failures : Nat, starts : Nat, closedAt : Nat]
        /\ past'.closedAt = past.closedAt /\ past.clock <= past'.clock /\ past'.clock = Tick
    BY <1>1, <1>2, ClockTicks
  <1>4. Written(o) \in Content /\ Written(o).rev = Tick /\ Written(o).by = o
    BY <1>1, WrittenIs
  <1>5. /\ Writes /\ memory'[o] = Written(o)
        /\ \A r \in Opens \ {o} : memory'[r] = memory[r]
    BY <1>1, <1>2, <1>3, <1>4, PutDoes
  <1>6. /\ open \in [Opens -> Opening] /\ Tick \in Nat
        /\ past.clock \in Nat /\ Tick = past.clock + 1
    BY <1>1 DEF StoreTypes, Tick
  <1>7. /\ agent = "claude" => creation = o
        /\ memory[o] = Absent /\ open[o].session = o
    BY <1>1, <1>6 DEF StoreInv, SharedInv, OpeningInv, Fresh
  <1>8. /\ open' \in [Opens -> Opening] /\ open'[o].step = "creating" /\ open'[o].session = o
        /\ open'[o].old = open[o].old /\ open'[o].rev = Tick
        /\ \A j \in Opens \ {o} : open'[j] = open[j]
    BY <1>2, <1>6, <1>7 DEF Opening, Step
  <1>9. Turns(o)
    BY <1>1, <1>3, <1>8 DEF Turns, Creating
  <1>10. Comes(memory'[o])
    <2>1. \A j \in Opens : open[j].step \in Creating \cup Reconciling => open[j].rev # Tick
      BY <1>6 DEF StoreInv, OpeningInv
    <2> QED BY <1>3, <1>4, <1>5, <1>8, <2>1 DEF Comes
  <1> QED BY <1>1, <1>2, <1>3, <1>5, <1>7, <1>8, <1>9, <1>10, OpeningSteps
       DEF Creating, Reconciling

LEMMA CodexReuseKeeps ==
  ASSUME StoreInv, Working, agent = "codex", NEW o \in Opens, open[o].step = "idle",
         NEW s \in Present, Materialized(s), open' = Settle(o, "answered", s),
         UNCHANGED <<agent, backend, disk, saves, creation>>
  PROVE  StoreInv'
  <1>1. /\ StoreTypes /\ open[o].step \notin Over \cup {"creating", "reconciling"} /\ s \in Opens
        /\ creation' \in Opens \cup {NoOpening} /\ agent # "claude"
    BY DEF StoreInv, StoreTypes, Over, Present
  <1>2. Turns(o)
    BY <1>1, SettleTurns
  <1>3. /\ Reads \/ Rests
        /\ past' \in [clock : Nat, changes : Nat, failures : Nat, starts : Nat, closedAt : Nat]
        /\ past'.closedAt = past.closedAt /\ past.clock <= past'.clock
    <2>1. past.clock \in Nat /\ past.clock <= Tick
      BY <1>1 DEF StoreTypes, Tick
    <2> QED BY <1>1, <2>1, MaterializedDoes DEF Reads, Rests
  <1>4. \A r \in Opens : memory'[r] \in {memory[r], disk[r]}
    BY <1>1 DEF Materialized, StoreTypes
  <1>5. \A r \in Opens : /\ Comes(memory'[r])
                         /\ memory'[r] # Absent => memory[r] # Absent \/ disk[r] # Absent
    BY <1>4 DEF Comes
  <1> QED BY <1>1, <1>2, <1>3, <1>5, OpeningSteps

LEMMA PreparationFailsKeeps ==
  ASSUME StoreInv, NEW o \in Opens, PreparationFails(o)
  PROVE  StoreInv'
  <1>1. /\ StoreTypes /\ Working /\ open[o].step \notin Over \cup {"creating", "reconciling"}
        /\ agent = "claude" => creation = o
    BY DEF StoreInv, SharedInv, PreparationFails, Over
  <1>2. Turns(o) /\ open'[o].step = "refused"
    BY <1>1, SettleTurns DEF PreparationFails
  <1>3. creation' \in Opens \cup {NoOpening}
    BY <1>1 DEF PreparationFails, Released, StoreTypes
  <1>4. /\ memory' = memory /\ Rests /\ saves' = saves /\ past' = past
        /\ past \in [clock : Nat, changes : Nat, failures : Nat, starts : Nat, closedAt : Nat]
        /\ UNCHANGED <<agent, backend, disk>>
    BY <1>1 DEF PreparationFails, Rests, StoreTypes
  <1> QED BY <1>1, <1>2, <1>3, <1>4, OpeningSteps DEF Creating, Reconciling

(* Those whose save is done or has failed.                                 *)
LEMMA OpeningEnds ==
  ASSUME StoreInv, NEW o \in Opens, open[o].step \in {"created", "uncreated", "reconciled", "unreconciled"}
  PROVE  /\ open[o].session \in Opens
         /\ open[o].rev \in 1 .. past.clock
         /\ open[o].old \in Content
         /\ open[o].step \in Creating \cup Reconciling
         /\ open[o].step \notin Over \cup {"creating", "reconciling"}
         /\ agent = "claude" => creation = o
         /\ agent = "claude" => open[o].session = o \/ open[open[o].session].step \in Over
         /\ open[o].step \in {"created", "uncreated"} => open[o].session = o
         /\ IsCurrent(o) => memory[open[o].session] # Absent /\ memory[open[o].session].by = o
  <1>1. /\ open[o].step \in Creating \cup Reconciling
        /\ open[o].step \notin Over \cup {"creating", "reconciling"}
        /\ open[o].step \in {"created", "uncreated"} => open[o].step \in Creating
        /\ open[o].step \in {"created", "uncreated"} \/ open[o].step \in Reconciling
    BY DEF Creating, Reconciling, Over
  <1>2. open[o].session \in Opens /\ open[o].old \in Content /\ past.clock \in Nat
    BY DEF StoreInv, StoreTypes, Opening
  <1>3. /\ open[o].rev \in 1 .. past.clock /\ Known(memory[open[o].session])
        /\ open[o].step \in Creating => open[o].session = o
    BY <1>1, <1>2 DEF StoreInv, OpeningInv
  <1>4. /\ agent = "claude" => creation = o
        /\ agent = "claude" => open[o].session = o \/ open[open[o].session].step \in Over
    BY <1>1, <1>3 DEF StoreInv, SharedInv
  <1>5. IsCurrent(o) => memory[open[o].session] # Absent /\ memory[open[o].session].by = o
    BY <1>1, <1>2, <1>3 DEF IsCurrent, Known, Absent
  <1> QED BY <1>1, <1>2, <1>3, <1>4, <1>5

LEMMA OpeningSavedKeeps ==
  ASSUME StoreInv, NEW o \in Opens, OpeningSaved(o)
  PROVE  StoreInv'
  <1>1. /\ StoreTypes /\ Working /\ open[o].step \notin Over \cup {"creating", "reconciling"}
        /\ open[o].session \in Opens
        /\ agent = "claude" => creation = o
        /\ agent = "claude" => open[o].session = o \/ open[open[o].session].step \in Over
        /\ IsCurrent(o) => memory[open[o].session] # Absent
        /\ open[o].step = "created" => open[o].session = o
    BY OpeningEnds DEF StoreInv, OpeningSaved
  <1>2. /\ Turns(o) /\ open'[o].step = "answered" /\ open'[o].session = open[o].session
        /\ \A j \in Opens : open[j].step \in Over => open'[j].step \in Over
    BY <1>1, SettleTurns DEF OpeningSaved, Answered
  <1>3. creation' \in Opens \cup {NoOpening} /\ UNCHANGED <<agent, backend, disk>>
    BY <1>1 DEF OpeningSaved, Answered, Released, StoreTypes
  <1>4. agent = "claude" => open'[open'[o].session].step \in Over
    BY <1>1, <1>2 DEF Over
  <1>5. \A j \in Opens : ~(open'[j].step \in Creating \cup Reconciling /\ open'[j].rev = Tick)
    <2>1. \A j \in Opens : open'[j].step \in Creating \cup Reconciling =>
            open'[j] = open[j]
      BY <1>2 DEF Turns, Creating, Reconciling
    <2>2. past.clock \in Nat /\ Tick = past.clock + 1
      BY <1>1 DEF StoreTypes, Tick
    <2> QED BY <2>1, <2>2 DEF StoreInv, OpeningInv
  <1>6. CASE agent = "claude" /\ open[o].step = "created" /\ IsCurrent(o)
    <2>1. /\ Put(o, Written("change")) /\ saves' = Scheduled
          /\ past' = [past EXCEPT !.clock = Tick]
      BY <1>6 DEF OpeningSaved
    <2>2. /\ past' \in [clock : Nat, changes : Nat, failures : Nat, starts : Nat, closedAt : Nat]
          /\ past'.closedAt = past.closedAt /\ past.clock <= past'.clock /\ past'.clock = Tick
      BY <1>1, <2>1, ClockTicks
    <2>3. Written("change") \in Content /\ Written("change").rev = Tick
      BY <1>1, WrittenIs
    <2>4. /\ Writes /\ memory'[o] = Written("change")
          /\ \A r \in Opens \ {o} : memory'[r] = memory[r]
      BY <1>1, <2>1, <2>2, <2>3, PutDoes
    <2>5. Comes(memory'[o]) /\ memory[o] # Absent
      BY <1>1, <1>5, <1>6, <2>2, <2>3, <2>4 DEF Comes
    <2> QED BY <1>1, <1>2, <1>3, <1>4, <2>1, <2>2, <2>4, <2>5, OpeningSteps DEF Creating, Reconciling
  <1>7. CASE ~(agent = "claude" /\ open[o].step = "created" /\ IsCurrent(o))
    <2>1. /\ memory' = memory /\ Rests /\ saves' = saves /\ past' = past
          /\ past \in [clock : Nat, changes : Nat, failures : Nat, starts : Nat, closedAt : Nat]
      BY <1>1, <1>7 DEF OpeningSaved, Rests, StoreTypes
    <2> QED BY <1>1, <1>2, <1>3, <1>4, <2>1, OpeningSteps DEF Creating, Reconciling
  <1> QED BY <1>6, <1>7

(* What a failed opening takes back is its own.                            *)
LEMMA RolledBackDoes ==
  ASSUME StoreInv, NEW o \in Opens, open[o].step \in {"uncreated", "unreconciled"}, RolledBack(o)
  PROVE  \/ /\ UNCHANGED <<memory, stamp, marks, past>>
         \/ /\ agent = "claude" /\ IsCurrent(o) /\ open[o].step = "uncreated" /\ Removed(o)
         \/ /\ agent = "claude" /\ IsCurrent(o) /\ open[o].step = "unreconciled" /\ Restored(o)
  <1>1. agent \in {"claude", "codex"}
    BY DEF StoreInv, StoreTypes
  <1>2. CASE agent = "codex" \/ ~IsCurrent(o)
    <2>1. RolledBack(o) = UNCHANGED <<memory, stamp, marks, past>>
      BY <1>2 DEF RolledBack
    <2> QED BY <2>1
  <1>3. CASE agent = "claude" /\ IsCurrent(o) /\ open[o].step = "uncreated"
    <2>1. RolledBack(o) = Removed(o)
      BY <1>3 DEF RolledBack
    <2> QED BY <1>3, <2>1
  <1>4. CASE agent = "claude" /\ IsCurrent(o) /\ open[o].step = "unreconciled"
    <2>1. RolledBack(o) = Restored(o)
      BY <1>4 DEF RolledBack
    <2> QED BY <1>4, <2>1
  <1> QED BY <1>1, <1>2, <1>3, <1>4

LEMMA OpeningNotSavedKeeps ==
  ASSUME StoreInv, NEW o \in Opens, OpeningNotSaved(o)
  PROVE  StoreInv'
  <1> DEFINE s == open[o].session
  <1>1. /\ StoreTypes /\ Working /\ open[o].step \notin Over \cup {"creating", "reconciling"}
        /\ s \in Opens /\ open[o].old \in Content
        /\ agent = "claude" => creation = o
        /\ IsCurrent(o) => memory[s] # Absent
        /\ open[o].step = "uncreated" => s = o
        /\ open[o].step \in {"uncreated", "unreconciled"}
    BY OpeningEnds DEF StoreInv, OpeningNotSaved
  <1>2. /\ Turns(o) /\ open'[o].step = "refused"
    BY <1>1, SettleTurns DEF OpeningNotSaved
  <1>3. /\ creation' \in Opens \cup {NoOpening} /\ UNCHANGED <<agent, backend, disk>>
        /\ saves' = saves
        /\ past \in [clock : Nat, changes : Nat, failures : Nat, starts : Nat, closedAt : Nat]
    BY <1>1 DEF OpeningNotSaved, Released, StoreTypes
  <1>4. ASSUME Writes \/ Removes \/ Rests,
               \A r \in Opens : memory'[r] = memory[r]
                                \/ (Comes(memory'[r]) /\ memory[r] # Absent),
               past' \in [clock : Nat, changes : Nat, failures : Nat, starts : Nat, closedAt : Nat],
               past'.closedAt = past.closedAt, past.clock <= past'.clock
        PROVE  StoreInv'
    BY <1>1, <1>2, <1>3, <1>4, OpeningSteps DEF Creating, Reconciling
  <1>5. CASE UNCHANGED <<memory, stamp, marks, past>>
    BY <1>3, <1>4, <1>5 DEF Rests
  <1>6. CASE agent = "claude" /\ IsCurrent(o) /\ open[o].step = "uncreated" /\ Removed(o)
    <2>1. Removes /\ past' = past
      BY <1>1, <1>6 DEF Removes, Removed
    <2>2. /\ memory'[o] = Absent /\ memory[o] # Absent
          /\ \A r \in Opens \ {o} : memory'[r] = memory[r]
      BY <1>1, <1>6 DEF Removed, StoreTypes
    <2>3. Comes(memory'[o])
      BY <1>1, <2>2 DEF Comes
    <2> QED BY <1>3, <1>4, <2>1, <2>2, <2>3
  <1>7. CASE agent = "claude" /\ IsCurrent(o) /\ open[o].step = "unreconciled" /\ Restored(o)
    <2>1. Put(s, open[o].old) /\ past' = [past EXCEPT !.clock = Tick]
      BY <1>7 DEF Restored
    <2>2. /\ past' \in [clock : Nat, changes : Nat, failures : Nat, starts : Nat, closedAt : Nat]
          /\ past'.closedAt = past.closedAt /\ past.clock <= past'.clock /\ past'.clock = Tick
      BY <1>1, <2>1, ClockTicks
    <2>3. /\ Writes /\ memory'[s] = open[o].old
          /\ \A r \in Opens \ {s} : memory'[r] = memory[r]
      BY <1>1, <2>1, <2>2, PutDoes
    <2>4. Comes(memory'[s]) /\ memory[s] # Absent
      BY <1>1, <1>7, <2>3 DEF Comes
    <2> QED BY <1>4, <2>2, <2>3, <2>4
  <1> QED BY <1>1, <1>5, <1>6, <1>7, RolledBackDoes DEF OpeningNotSaved

LEMMA ClaudeSteps ==
  ASSUME StoreInv, NEW o \in Opens, ClaudeOpens(o) \/ ClaudePrepared(o)
  PROVE  StoreInv'
  <1>1. CASE ClaudeOpens(o)
    <2>1. /\ Working /\ agent = "claude" /\ open[o].step = "idle"
          /\ UNCHANGED <<agent, backend, disk>>
      BY <1>1 DEF ClaudeOpens, Working
    <2>2. \/ Joins(o)
          \/ creation = NoOpening /\ ReuseAttached(o)
          \/ creation = NoOpening /\ Prepares(o) /\ creation' = o
      BY <1>1 DEF ClaudeOpens
    <2> QED BY <2>1, <2>2, JoinsKeeps, ReuseKeeps, PreparesKeeps
  <1>2. CASE ClaudePrepared(o)
    <2>1. /\ Working /\ agent = "claude" /\ open[o].step = "preparing"
          /\ UNCHANGED <<agent, backend, disk>>
      BY <1>2 DEF ClaudePrepared
    <2>2. creation = o
      BY <2>1 DEF StoreInv, SharedInv
    <2>3. ReuseAttached(o) \/ (Created(o) /\ saves' = Save(o) /\ UNCHANGED creation)
      BY <1>2 DEF ClaudePrepared
    <2> QED BY <2>1, <2>2, <2>3, ReuseKeeps, CreatedKeeps
  <1> QED BY <1>1, <1>2

LEMMA CodexSteps ==
  ASSUME StoreInv, NEW o \in Opens, CodexOpens(o) \/ CodexPrepared(o)
  PROVE  StoreInv'
  <1>1. CASE CodexOpens(o)
    <2>1. /\ Working /\ agent = "codex" /\ open[o].step = "idle"
          /\ UNCHANGED <<agent, backend, disk, creation>>
      BY <1>1 DEF CodexOpens, Working
    <2>2. \/ \E s \in Present : /\ Materialized(s) /\ open' = Settle(o, "answered", s)
                                /\ UNCHANGED saves
          \/ Prepares(o)
      BY <1>1 DEF CodexOpens
    <2> QED BY <2>1, <2>2, CodexReuseKeeps, PreparesKeeps
  <1>2. CASE CodexPrepared(o)
    BY <1>2, CreatedKeeps DEF CodexPrepared
  <1> QED BY <1>1, <1>2

-----------------------------------------------------------------------------
(* What else reads or changes a session, or asks for a save.               *)
LEMMA OtherSteps ==
  ASSUME StoreInv, Working, UNCHANGED <<agent, backend, disk, open, creation>>,
         Writes \/ Reads \/ Rests,
         \A s \in Opens :
           memory'[s] = memory[s] \/ (Comes(memory'[s]) /\ (memory[s] # Absent \/ disk[s] # Absent)),
         past' \in [clock : Nat, changes : Nat, failures : Nat, starts : Nat, closedAt : Nat],
         past'.closedAt = past.closedAt, past.clock <= past'.clock,
         saves' \in [chain : {saves'.chain}, timer : BOOLEAN],
         \/ saves'.chain = saves.chain
         \/ Asks /\ saves'.chain[Len(saves'.chain)].by \notin Opens
  PROVE  StoreInv'
  <1>1. Ordinary
    BY DEF Ordinary
  <1>2. open' \in [Opens -> Opening] /\ creation' \in Opens \cup {NoOpening}
    BY DEF StoreInv, StoreTypes
  <1>3. StoreTypes' /\ MarksInv' /\ ChainInv' /\ SaveInv' /\ UnsavedIsDirty' /\ ClosedIsSaved'
    BY <1>1, <1>2, OrdinaryKeeps
  <1>4. QueueInv'
    BY QueueKept
  <1>5. OpeningInv'
    <2>1. \A s \in Opens : Comes(memory'[s])
      BY DEF Comes
    <2> QED BY <2>1, OpeningKept
  <1>6. SharedInv'
    BY SharedStays
  <1> QED BY <1>3, <1>4, <1>5, <1>6 DEF StoreInv

LEMMA ReadKeeps ==
  ASSUME StoreInv, NEW s \in Opens, SessionIsRead(s)
  PROVE  StoreInv'
  <1>1. /\ StoreTypes /\ Materialized(s) /\ Working
        /\ UNCHANGED <<agent, backend, disk, saves, open, creation>>
    BY DEF StoreInv, SessionIsRead, Working
  <1>2. /\ Reads \/ Rests
        /\ past' \in [clock : Nat, changes : Nat, failures : Nat, starts : Nat, closedAt : Nat]
        /\ past'.closedAt = past.closedAt /\ past.clock <= past'.clock
    <2>1. past.clock \in Nat /\ past.clock <= Tick
      BY <1>1 DEF StoreTypes, Tick
    <2> QED BY <1>1, <2>1, MaterializedDoes DEF Reads, Rests
  <1>3. \A r \in Opens : memory'[r] \in {memory[r], disk[r]}
    BY <1>1 DEF Materialized, StoreTypes
  <1>4. ASSUME NEW r \in Opens
        PROVE  memory'[r] = memory[r] \/ (Comes(memory'[r]) /\ (memory[r] # Absent \/ disk[r] # Absent))
    <2>1. s \in Present /\ \A q \in Opens \ {s} : memory'[q] = memory[q]
      BY <1>1 DEF SessionIsRead, Materialized, StoreTypes
    <2> QED BY <1>3, <2>1 DEF Comes, Present
  <1>5. saves' \in [chain : {saves'.chain}, timer : BOOLEAN] /\ saves'.chain = saves.chain
    BY <1>1, SavesAre
  <1> QED BY <1>1, <1>2, <1>4, <1>5, OtherSteps

LEMMA ChangeKeeps ==
  ASSUME StoreInv, NEW s \in Opens, NEW saving \in BOOLEAN, SessionChanges(s, saving)
  PROVE  StoreInv'
  <1>1. /\ StoreTypes /\ Working /\ Put(s, Written("change")) /\ memory[s] # Absent
        /\ past' = [past EXCEPT !.clock = Tick, !.changes = @ + 1]
        /\ UNCHANGED <<agent, backend, disk, open, creation>>
        /\ saves' = Save("change") \/ saves' = Scheduled
    BY DEF StoreInv, SessionChanges, Present
  <1>2. /\ past' \in [clock : Nat, changes : Nat, failures : Nat, starts : Nat, closedAt : Nat]
        /\ past'.closedAt = past.closedAt /\ past.clock <= past'.clock /\ past'.clock = Tick
    BY <1>1, ClockTicks
  <1>3. Written("change") \in Content /\ Written("change").rev = Tick
    BY <1>1, WrittenIs
  <1>4. /\ Writes /\ memory'[s] = Written("change")
        /\ \A r \in Opens \ {s} : memory'[r] = memory[r]
    BY <1>1, <1>2, <1>3, PutDoes
  <1>5. Comes(memory'[s])
    <2>1. past.clock \in Nat /\ Tick = past.clock + 1
      BY <1>1 DEF StoreTypes, Tick
    <2>2. \A j \in Opens : open[j].step \in Creating \cup Reconciling => open[j].rev # Tick
      BY <2>1 DEF StoreInv, OpeningInv
    <2> QED BY <1>1, <1>2, <1>3, <1>4, <2>2 DEF Comes
  <1>6. /\ saves' \in [chain : {saves'.chain}, timer : BOOLEAN]
        /\ \/ saves'.chain = saves.chain
           \/ Asks /\ saves'.chain[Len(saves'.chain)].by \notin Opens
    BY <1>1, SavesAre, OpensAssumption
  <1> QED BY <1>1, <1>2, <1>4, <1>5, <1>6, OtherSteps

LEMMA AskKeeps ==
  ASSUME StoreInv, OthersSave \/ TimerFires
  PROVE  StoreInv'
  <1>1. /\ StoreTypes /\ Working /\ memory' = memory /\ Rests
        /\ UNCHANGED <<agent, backend, disk, open, creation>>
        /\ past' = past \/ past' = [past EXCEPT !.changes = @ + 1]
    BY DEF StoreInv, OthersSave, TimerFires, Rests, StoreTypes
  <1>2. /\ past' \in [clock : Nat, changes : Nat, failures : Nat, starts : Nat, closedAt : Nat]
        /\ past'.closedAt = past.closedAt /\ past.clock <= past'.clock
    <2>1. past \in [clock : Nat, changes : Nat, failures : Nat, starts : Nat, closedAt : Nat]
      BY <1>1 DEF StoreTypes
    <2>2. past.changes + 1 \in Nat /\ past.clock <= past.clock
      BY <2>1
    <2> QED BY <1>1, <2>1, <2>2
  <1>3. /\ saves' \in [chain : {saves'.chain}, timer : BOOLEAN]
        /\ Asks /\ saves'.chain[Len(saves'.chain)].by \notin Opens
    <2>1. CASE OthersSave
      BY <1>1, <2>1, SavesAre, OpensAssumption DEF OthersSave
    <2>2. CASE TimerFires
      <3>1. /\ saves'.chain = Append(saves.chain, [by |-> "timer", started |-> FALSE, saved |-> NotStarted])
            /\ saves' \in [chain : {saves'.chain}, timer : BOOLEAN]
        BY <1>1, <2>2 DEF TimerFires, Save, StoreTypes
      <3>2. saves'.chain[Len(saves'.chain)].by = "timer"
        BY <1>1, <3>1 DEF StoreTypes
      <3> QED BY <3>1, <3>2, OpensAssumption DEF Asks
    <2> QED BY <2>1, <2>2
  <1> QED BY <1>1, <1>2, <1>3, OtherSteps

-----------------------------------------------------------------------------
(* The saves.                                                              *)
LEMMA SaveWritesKeeps ==
  ASSUME StoreInv, SaveWrites
  PROVE  StoreInv'
  <1> DEFINE written == marks.dirty \ marks.partial
             x == [Saver EXCEPT !.started = TRUE, !.saved = [s \in written |-> stamp[s]]]
             d == saves'.chain
  <1>1. /\ StoreTypes /\ MarksInv /\ Working /\ saves.chain \in Seq(SaveOf) /\ saves.chain # <<>>
        /\ disk' = [s \in Opens |-> IF s \in written THEN memory[s] ELSE disk[s]]
        /\ saves' = [chain |-> <<x>> \o Tail(saves.chain), timer |-> FALSE]
        /\ UNCHANGED <<agent, backend, memory, stamp, marks, open, creation, past>>
    BY DEF StoreInv, StoreTypes, SaveWrites
  <1>2. /\ Saver \in SaveOf /\ Saver = saves.chain[1] /\ Len(saves.chain) \in Nat
        /\ written \subseteq Opens /\ stamp \in [Opens -> Nat]
    BY <1>1, ChainTail DEF StoreTypes, Saver
  <1>3. /\ x \in SaveOf /\ x.started /\ x.by = Saver.by
        /\ DOMAIN x.saved = written /\ \A s \in written : x.saved[s] = stamp[s]
    <2>1. [s \in written |-> stamp[s]] \in UNION {[w -> Nat] : w \in SUBSET Opens}
      <3>1. [s \in written |-> stamp[s]] \in [written -> Nat]
        BY <1>2
      <3> QED BY <1>2, <3>1
    <2> DEFINE f == [s \in written |-> stamp[s]]
    <2>2. DOMAIN f = written /\ \A s \in written : f[s] = stamp[s]
      OBVIOUS
    <2> HIDE DEF written, f
    <2>3. /\ [Saver EXCEPT !.started = TRUE, !.saved = f] \in SaveOf
          /\ [Saver EXCEPT !.started = TRUE, !.saved = f].started
          /\ [Saver EXCEPT !.started = TRUE, !.saved = f].saved = f
          /\ [Saver EXCEPT !.started = TRUE, !.saved = f].by = Saver.by
      BY <1>2, <2>1 DEF SaveOf, f
    <2> QED BY <2>2, <2>3 DEF f
  <1> HIDE DEF x
  <1>4. /\ d \in Seq(SaveOf) /\ d # <<>> /\ Saver' = x /\ Len(d) = Len(saves.chain)
        /\ d[1] = x /\ \A i \in 2 .. Len(d) : d[i] = saves.chain[i]
    <2>1. d = <<x>> \o Tail(saves.chain)
      BY <1>1
    <2> QED BY <1>1, <1>3, <2>1, ChainReplace DEF Saver
  <1>5. \A i \in 1 .. Len(d) : i \in 1 .. Len(saves.chain) /\ d[i].by = saves.chain[i].by
    BY <1>2, <1>3, <1>4
  <1>6. /\ disk' \in [Opens -> Content]
        /\ \A s \in Opens : disk'[s] = IF s \in written THEN memory[s] ELSE disk[s]
    BY <1>1 DEF StoreTypes
  <1>7. StoreTypes'
    <2>1. saves' \in [chain : Seq(SaveOf), timer : BOOLEAN]
      BY <1>1, <1>4
    <2> QED BY <1>1, <1>6, <2>1 DEF StoreTypes
  <1>8. MarksInv'
    BY <1>1 DEF MarksInv
  <1>9. ChainInv'
    BY <1>1, <1>2, <1>4, <1>5 DEF StoreInv, ChainInv
  <1>10. SaveInv'
    <2>1. \A s \in written : stamp[s] <= past.clock
      BY <1>1, <1>2 DEF MarksInv
    <2>2. \A s \in marks.dirty : s \in written
      BY <1>1 DEF MarksInv
    <2> HIDE DEF written
    <2> QED BY <1>1, <1>2, <1>3, <1>4, <1>6, <2>1, <2>2 DEF SaveInv, SavedUnchanged
  <1>11. QueueInv'
    BY <1>1, <1>4, <1>5 DEF StoreInv, QueueInv
  <1>12. OpeningInv'
    BY <1>1, <1>6 DEF StoreInv, OpeningInv, Known
  <1>13. SharedInv'
    BY <1>1, <1>6 DEF StoreInv, SharedInv
  <1>14. UnsavedIsDirty'
    BY <1>1, <1>6 DEF StoreInv, UnsavedIsDirty, Present, Working
  <1>15. ClosedIsSaved'
    BY <1>1 DEF ClosedIsSaved, Working
  <1> QED BY <1>7, <1>8, <1>9, <1>10, <1>11, <1>12, <1>13, <1>14, <1>15 DEF StoreInv

(* The first save is over, well or not: its opening goes on.               *)
Follows(after) ==
  /\ saves'.chain = Tail(saves.chain)
  /\ saves.chain # <<>> /\ open' = Followed(Saver.by, after)
  /\ after.creating \in Creating /\ after.reconciling \in Reconciling
  /\ after = [creating |-> after.creating, reconciling |-> after.reconciling]

LEMMA FollowsDoes ==
  ASSUME StoreInv, NEW after, Follows(after)
  PROVE  /\ open' \in [Opens -> Opening]
         /\ \A j \in Opens :
              /\ open'[j].session = open[j].session /\ open'[j].old = open[j].old
              /\ open'[j].rev = open[j].rev
              /\ \/ open'[j].step = open[j].step
                 \/ open[j].step = "creating" /\ open'[j].step \in Creating
                 \/ open[j].step = "reconciling" /\ open'[j].step \in Reconciling
              /\ j # Saver.by => open'[j].step = open[j].step
  <1>1. /\ open \in [Opens -> Opening] /\ saves.chain \in Seq(SaveOf)
        /\ open' = Followed(Saver.by, after)
        /\ after.creating \in Creating /\ after.reconciling \in Reconciling
        /\ after = [creating |-> after.creating, reconciling |-> after.reconciling]
    BY DEF StoreInv, StoreTypes, Follows
  <1>2. CASE Saver.by \notin Opens
    BY <1>1, <1>2 DEF Followed
  <1>3. CASE Saver.by \in Opens
    <2> DEFINE b == Saver.by
               n == after[open[b].step]
    <2>1. open[b].step \in {"creating", "reconciling"}
      <3>1. 1 \in 1 .. Len(saves.chain) /\ Saver = saves.chain[1]
        BY <1>1, ChainTail DEF Follows, Saver
      <3> QED BY <1>3, <3>1 DEF StoreInv, QueueInv
    <2>2. /\ open[b].step = "creating" => n \in Creating
          /\ open[b].step = "reconciling" => n \in Reconciling
      <3>1. after["creating"] = after.creating /\ after["reconciling"] = after.reconciling
        OBVIOUS
      <3> QED BY <1>1, <3>1
    <2>3. n \in Step
      BY <2>1, <2>2 DEF Step, Creating, Reconciling
    <2>4. open' = [open EXCEPT ![b].step = n]
      BY <1>1, <1>3 DEF Followed
    <2> HIDE DEF b, n
    <2>5. /\ b \in Opens /\ open[b] \in [step : Step, session : Opens, old : Content, rev : Nat]
          /\ [open[b] EXCEPT !.step = n] \in [step : Step, session : Opens, old : Content, rev : Nat]
      BY <1>1, <1>3, <2>3 DEF Opening, b
    <2>6. /\ open' \in [Opens -> Opening] /\ open'[b] = [open[b] EXCEPT !.step = n]
          /\ \A j \in Opens \ {b} : open'[j] = open[j]
      BY <1>1, <2>4, <2>5 DEF Opening
    <2>7. /\ open'[b].step = n /\ open'[b].session = open[b].session /\ open'[b].old = open[b].old
          /\ open'[b].rev = open[b].rev
      BY <2>5, <2>6
    <2> QED BY <2>1, <2>2, <2>6, <2>7 DEF b
  <1> QED BY <1>2, <1>3

LEMMA FollowsKeeps ==
  ASSUME StoreInv, NEW after, Follows(after), saves' \in [chain : {saves'.chain}, timer : BOOLEAN],
         UNCHANGED <<agent, memory, stamp, disk, creation>>,
         marks' \in [dirty : SUBSET Opens, partial : {marks.partial}], marks'.dirty \subseteq marks.dirty,
         past' \in [clock : Nat, changes : Nat, failures : Nat, starts : Nat, closedAt : Nat],
         past'.clock = past.clock, past'.closedAt = past.closedAt,
         backend' \in {backend, "closed", "down"}
  PROVE  /\ StoreTypes' /\ MarksInv' /\ ChainInv' /\ SaveInv' /\ OpeningInv' /\ SharedInv' /\ QueueInv'
  <1> DEFINE c == saves.chain
             d == saves'.chain
  <1>1. /\ StoreTypes /\ MarksInv /\ c \in Seq(SaveOf) /\ c # <<>>
        /\ d = Tail(c) /\ past.clock \in Nat
    BY DEF StoreInv, StoreTypes, Follows
  <1>2. /\ d \in Seq(SaveOf) /\ Len(c) \in Nat \ {0} /\ Len(d) = Len(c) - 1
        /\ Saver = c[1] /\ \A i \in 1 .. Len(d) : d[i] = c[i + 1]
    BY <1>1, ChainTail DEF Saver
  <1>3. /\ open' \in [Opens -> Opening]
        /\ \A j \in Opens :
              /\ open'[j].session = open[j].session /\ open'[j].old = open[j].old
              /\ open'[j].rev = open[j].rev
              /\ \/ open'[j].step = open[j].step
                 \/ open[j].step = "creating" /\ open'[j].step \in Creating
                 \/ open[j].step = "reconciling" /\ open'[j].step \in Reconciling
              /\ j # Saver.by => open'[j].step = open[j].step
    BY FollowsDoes
  <1> HIDE DEF c, d
  <1>4. StoreTypes'
    <2>1. saves' \in [chain : Seq(SaveOf), timer : BOOLEAN]
      BY <1>2 DEF d
    <2>2. /\ marks' \in [dirty : SUBSET Opens, partial : SUBSET Opens]
          /\ agent' \in {"claude", "codex"} /\ backend' \in {"up", "closing", "closed", "down"}
          /\ memory' \in [Opens -> Content] /\ stamp' \in [Opens -> Nat] /\ disk' \in [Opens -> Content]
          /\ creation' \in Opens \cup {NoOpening}
      BY <1>1 DEF StoreTypes
    <2> QED BY <1>3, <2>1, <2>2 DEF StoreTypes
  <1>5. MarksInv'
    BY <1>1 DEF MarksInv
  <1>6. \A i \in 1 .. Len(d) : ~d[i].started /\ i + 1 \in 2 .. Len(c)
    <2>1. \A i \in 1 .. Len(d) : i + 1 \in 2 .. Len(c)
      BY <1>2
    <2>2. \A i \in 2 .. Len(c) : ~c[i].started
      BY DEF StoreInv, ChainInv, c
    <2> QED BY <1>2, <2>1, <2>2
  <1>7. ChainInv'
    <2>1. \A i \in 2 .. Len(d) : ~d[i].started
      BY <1>2, <1>6
    <2>2. backend' = "up" => \A i \in 1 .. Len(d) : d[i].by # "close"
      <3>1. backend' = "up" => backend = "up"
        OBVIOUS
      <3>2. backend = "up" => \A i \in 1 .. Len(c) : c[i].by # "close"
        BY DEF StoreInv, ChainInv, c
      <3>3. \A i \in 1 .. Len(d) : i + 1 \in 1 .. Len(c)
        BY <1>2
      <3> QED BY <1>2, <3>1, <3>2, <3>3
    <2> QED BY <2>1, <2>2 DEF ChainInv, d
  <1>8. SaveInv'
    <2>1. d # <<>> => ~Head(d).started
      BY <1>2, <1>6
    <2> QED BY <2>1 DEF SaveInv, Saver, d
  <1>9. QueueInv'
    <2>1. /\ \A i \in 1 .. Len(c) : c[i].by \in Opens =>
               /\ open[c[i].by].step \in {"creating", "reconciling"}
               /\ \A j \in 1 .. Len(c) : c[j].by = c[i].by => j = i
      BY DEF StoreInv, QueueInv, c
    <2>2. \A i \in 1 .. Len(d) : i + 1 \in 1 .. Len(c) /\ i + 1 # 1 /\ 1 \in 1 .. Len(c)
      BY <1>2
    <2>3. ASSUME NEW i \in 1 .. Len(d), d[i].by \in Opens
          PROVE  /\ open'[d[i].by].step \in {"creating", "reconciling"}
                 /\ \A j \in 1 .. Len(d) : d[j].by = d[i].by => j = i
      <3>1. c[i + 1] = d[i] /\ i + 1 \in 1 .. Len(c) /\ c[1].by # d[i].by
        BY <1>2, <2>1, <2>2, <2>3
      <3>2. open'[d[i].by].step \in {"creating", "reconciling"}
        <4>1. open[d[i].by].step \in {"creating", "reconciling"}
          BY <2>1, <2>3, <3>1
        <4>2. d[i].by # Saver.by
          BY <1>2, <3>1
        <4> QED BY <1>3, <2>3, <4>1, <4>2
      <3>3. \A j \in 1 .. Len(d) : d[j].by = d[i].by => j + 1 = i + 1
        BY <1>2, <2>1, <2>2, <2>3, <3>1
      <3> QED BY <3>2, <3>3
    <2> QED BY <2>3 DEF QueueInv, d
  <1>10. \A j \in Opens :
           /\ open'[j].step \in Creating <=> open[j].step \in Creating
           /\ open'[j].step \in Reconciling <=> open[j].step \in Reconciling
           /\ open'[j].step \in Over <=> open[j].step \in Over
           /\ open'[j].step = "preparing" <=> open[j].step = "preparing"
           /\ open'[j].step = "answered" <=> open[j].step = "answered"
           /\ open'[j].step \in Fresh <=> open[j].step \in Fresh
    BY <1>3 DEF Creating, Reconciling, Over, Fresh
  <1>11. OpeningInv'
    BY <1>3, <1>10 DEF StoreInv, OpeningInv, Known
  <1>12. SharedInv'
    <2>1. \A j \in Opens : open[j].session \in Opens
      BY <1>1 DEF StoreTypes, Opening
    <2> QED BY <1>3, <1>10, <2>1 DEF StoreInv, SharedInv
  <1> QED BY <1>4, <1>5, <1>7, <1>8, <1>9, <1>11, <1>12

LEMMA SaveEndsKeeps ==
  ASSUME StoreInv, SaveEnds
  PROVE  StoreInv'
  <1> DEFINE after == [creating |-> "created", reconciling |-> "reconciled"]
  <1>1. /\ StoreTypes /\ MarksInv /\ Working /\ saves.chain # <<>> /\ Saver.started
        /\ marks' = [marks EXCEPT !.dirty = @ \ SavedUnchanged]
        /\ saves' = [saves EXCEPT !.chain = Tail(@)]
        /\ open' = Followed(Saver.by, after)
        /\ backend' = IF Saver.by = "close" THEN "closed" ELSE backend
        /\ UNCHANGED <<agent, memory, stamp, disk, creation, past>>
    BY DEF StoreInv, SaveEnds
  <1>2. Follows(after)
    BY <1>1 DEF Follows, Creating, Reconciling, StoreTypes
  <1>3. /\ saves' \in [chain : {saves'.chain}, timer : BOOLEAN]
        /\ past' \in [clock : Nat, changes : Nat, failures : Nat, starts : Nat, closedAt : Nat]
    BY <1>1 DEF StoreTypes
  <1>4. /\ marks' \in [dirty : SUBSET Opens, partial : {marks.partial}]
        /\ marks'.dirty = marks.dirty \ SavedUnchanged /\ marks'.partial = marks.partial
    BY <1>1 DEF StoreTypes
  <1> HIDE DEF after
  <1>5. /\ StoreTypes' /\ MarksInv' /\ ChainInv' /\ SaveInv' /\ OpeningInv' /\ SharedInv' /\ QueueInv'
    BY <1>1, <1>2, <1>3, <1>4, FollowsKeeps
  <1>6. /\ \A s \in DOMAIN Saver.saved : Saver.saved[s] = stamp[s] => memory[s] \in {Absent, disk[s]}
        /\ Saver.by = "close" =>
             \A s \in marks.dirty : stamp[s] > past.closedAt \/ s \in SavedUnchanged
    BY <1>1 DEF StoreInv, SaveInv
  <1>7. UnsavedIsDirty'
    BY <1>1, <1>4, <1>6 DEF StoreInv, UnsavedIsDirty, Present, SavedUnchanged
  <1>8. ClosedIsSaved'
    BY <1>1, <1>4, <1>6 DEF ClosedIsSaved, Working
  <1> QED BY <1>5, <1>7, <1>8 DEF StoreInv

LEMMA SaveFailsKeeps ==
  ASSUME StoreInv, SaveFails
  PROVE  StoreInv'
  <1> DEFINE after == [creating |-> "uncreated", reconciling |-> "unreconciled"]
  <1>1. /\ StoreTypes /\ MarksInv /\ Working /\ saves.chain # <<>>
        /\ saves' = [chain |-> Tail(saves.chain), timer |-> FALSE]
        /\ open' = Followed(Saver.by, after)
        /\ backend' = IF Saver.by = "close" THEN "down" ELSE backend
        /\ past' = [past EXCEPT !.failures = @ + 1]
        /\ UNCHANGED <<agent, memory, stamp, marks, disk, creation>>
    BY DEF StoreInv, SaveFails
  <1>2. Follows(after)
    BY <1>1 DEF Follows, Creating, Reconciling
  <1>3. /\ past' \in [clock : Nat, changes : Nat, failures : Nat, starts : Nat, closedAt : Nat]
        /\ past'.clock = past.clock /\ past'.closedAt = past.closedAt
    <2>1. past \in [clock : Nat, changes : Nat, failures : Nat, starts : Nat, closedAt : Nat]
      BY <1>1 DEF StoreTypes
    <2>2. past.failures + 1 \in Nat
      BY <2>1
    <2> QED BY <1>1, <2>1, <2>2
  <1>4. /\ marks' \in [dirty : SUBSET Opens, partial : {marks.partial}] /\ marks'.dirty \subseteq marks.dirty
        /\ saves' \in [chain : {saves'.chain}, timer : BOOLEAN]
    BY <1>1 DEF StoreTypes
  <1> HIDE DEF after
  <1>5. /\ StoreTypes' /\ MarksInv' /\ ChainInv' /\ SaveInv' /\ OpeningInv' /\ SharedInv' /\ QueueInv'
    BY <1>1, <1>2, <1>3, <1>4, FollowsKeeps
  <1>6. UnsavedIsDirty' /\ ClosedIsSaved'
    BY <1>1 DEF StoreInv, UnsavedIsDirty, Present, ClosedIsSaved, Working
  <1> QED BY <1>5, <1>6 DEF StoreInv

(* What the close finds, its save includes.                                *)
LEMMA CloseKeeps ==
  ASSUME StoreInv, CloseBegins
  PROVE  StoreInv'
  <1> DEFINE c == saves.chain
             d == saves'.chain
             x == [by |-> "close", started |-> FALSE, saved |-> NotStarted]
  <1>1. /\ StoreTypes /\ MarksInv /\ c \in Seq(SaveOf) /\ backend = "up" /\ backend' = "closing"
        /\ saves' = [Save("close") EXCEPT !.timer = FALSE]
        /\ past' = [past EXCEPT !.closedAt = past.clock]
        /\ UNCHANGED <<agent, memory, stamp, marks, disk, open, creation>>
    BY DEF StoreInv, StoreTypes, CloseBegins
  <1>2. x \in SaveOf /\ ~x.started /\ x.by = "close" /\ "close" \notin Opens
    <2>1. NotStarted \in [{} -> Nat] /\ {} \in SUBSET Opens
      BY DEF NotStarted
    <2> QED BY <2>1, OpensAssumption DEF SaveOf
  <1>3. d = Append(c, x) /\ saves' = [chain |-> d, timer |-> FALSE]
    BY <1>1 DEF Save, StoreTypes
  <1>4. /\ past' \in [clock : Nat, changes : Nat, failures : Nat, starts : Nat, closedAt : Nat]
        /\ past'.clock = past.clock /\ past'.closedAt = past.clock /\ past.clock \in Nat
    BY <1>1 DEF StoreTypes
  <1> HIDE DEF c, d, x
  <1>5. /\ d \in Seq(SaveOf) /\ d # <<>> /\ Len(d) = Len(c) + 1 /\ Len(c) \in Nat
        /\ \A i \in 1 .. Len(c) : d[i] = c[i]
        /\ d[Len(c) + 1] = x
        /\ Head(d) = IF c = <<>> THEN x ELSE Head(c)
    BY <1>1, <1>2, <1>3, ChainAppend
  <1>6. \A i \in 1 .. Len(d) : i \in 1 .. Len(c) \/ i = Len(c) + 1
    BY <1>5
  <1>7. StoreTypes'
    <2>1. saves' \in [chain : Seq(SaveOf), timer : BOOLEAN]
      BY <1>3, <1>5
    <2> QED BY <1>1, <1>4, <2>1 DEF StoreTypes
  <1>8. MarksInv'
    BY <1>1, <1>4 DEF MarksInv
  <1>9. ChainInv'
    <2>1. \A i \in 2 .. Len(c) : ~c[i].started
      BY DEF StoreInv, ChainInv, c
    <2>2. \A i \in 2 .. Len(d) : ~d[i].started
      BY <1>2, <1>5, <1>6, <2>1
    <2> QED BY <1>1, <2>2 DEF ChainInv, d
  <1>10. SaveInv'
    <2>1. c # <<>> => Head(c) = c[1] /\ 1 \in 1 .. Len(c)
      BY <1>1, ChainTail
    <2>2. c # <<>> => Head(c).by # "close"
      BY <1>1, <2>1 DEF StoreInv, ChainInv, c
    <2>3. Head(d).started => c # <<>> /\ Head(d) = Head(c)
      BY <1>2, <1>5
    <2> QED BY <1>1, <1>4, <2>2, <2>3 DEF StoreInv, SaveInv, Saver, Working, c, d
  <1>11. QueueInv'
    <2>1. /\ \A i \in 1 .. Len(c) : c[i].by \in Opens =>
               /\ open[c[i].by].step \in {"creating", "reconciling"}
               /\ \A j \in 1 .. Len(c) : c[j].by = c[i].by => j = i
      BY DEF StoreInv, QueueInv, c
    <2>2. ASSUME NEW i \in 1 .. Len(d), d[i].by \in Opens
          PROVE  /\ open[d[i].by].step \in {"creating", "reconciling"}
                 /\ \A j \in 1 .. Len(d) : d[j].by = d[i].by => j = i
      <3>1. i \in 1 .. Len(c) /\ d[i] = c[i]
        BY <1>2, <1>5, <1>6, <2>2
      <3>2. \A j \in 1 .. Len(d) : d[j].by = d[i].by => j \in 1 .. Len(c) /\ d[j] = c[j]
        BY <1>2, <1>5, <1>6, <2>2
      <3> QED BY <2>1, <2>2, <3>1, <3>2
    <2> QED BY <1>1, <2>2 DEF QueueInv, d
  <1>12. OpeningInv'
    BY <1>1, <1>4 DEF StoreInv, OpeningInv, Known
  <1>13. SharedInv'
    BY <1>1 DEF StoreInv, SharedInv
  <1>14. UnsavedIsDirty' /\ ClosedIsSaved'
    BY <1>1 DEF StoreInv, UnsavedIsDirty, Present, Working, ClosedIsSaved
  <1> QED BY <1>7, <1>8, <1>9, <1>10, <1>11, <1>12, <1>13, <1>14 DEF StoreInv

LEMMA StopKeeps ==
  ASSUME StoreInv, DaemonStops
  PROVE  StoreInv'
  <1>1. /\ backend' = "down"
        /\ UNCHANGED <<agent, memory, stamp, marks, disk, saves, open, creation, past>>
    BY DEF DaemonStops
  <1>2. StoreTypes' /\ MarksInv'
    BY <1>1 DEF StoreInv, StoreTypes, MarksInv
  <1>3. ChainInv' /\ SaveInv' /\ UnsavedIsDirty' /\ ClosedIsSaved'
    BY <1>1 DEF StoreInv, ChainInv, SaveInv, UnsavedIsDirty, ClosedIsSaved, Working
  <1>4. OpeningInv' /\ SharedInv' /\ QueueInv'
    BY <1>1 DEF StoreInv, OpeningInv, SharedInv, QueueInv, Known
  <1> QED BY <1>2, <1>3, <1>4 DEF StoreInv

(* Nothing of an opening outlives the daemon but its answer.               *)
LEMMA StartKeeps ==
  ASSUME StoreInv, NEW partial \in SUBSET Opens, NEW changed \in SUBSET Opens,
         DaemonStarts(partial, changed)
  PROVE  StoreInv'
  <1> DEFINE rows == {s \in Opens : disk[s] # Absent}
             now == [s \in Opens |-> IF s \in changed THEN Written("start") ELSE disk[s]]
  <1>1. /\ StoreTypes /\ partial \subseteq rows /\ (agent = "claude" => partial = {})
        /\ changed \subseteq rows
        /\ backend' = "up" /\ memory' = now
        /\ stamp' = [s \in Opens |-> IF s \in rows THEN Tick ELSE 0]
        /\ marks' = [dirty |-> {}, partial |-> partial]
        /\ disk' = [s \in Opens |-> IF s \in partial THEN disk[s] ELSE now[s]]
        /\ saves' = [chain |-> <<>>, timer |-> FALSE]
        /\ open' = [o \in Opens |-> IF open[o].step \in {"idle", "answered", "refused"} THEN open[o]
                                    ELSE [open[o] EXCEPT !.step = "lost"]]
        /\ creation' = NoOpening
        /\ past' = [past EXCEPT !.clock = Tick, !.starts = @ + 1]
        /\ agent' = agent
    BY DEF StoreInv, DaemonStarts
  <1>2. /\ past' \in [clock : Nat, changes : Nat, failures : Nat, starts : Nat, closedAt : Nat]
        /\ past'.clock = Tick /\ past'.closedAt = past.closedAt
        /\ past.clock \in Nat /\ Tick = past.clock + 1 /\ past.closedAt \in Nat
    <2>1. past \in [clock : Nat, changes : Nat, failures : Nat, starts : Nat, closedAt : Nat]
      BY <1>1 DEF StoreTypes
    <2>2. past.starts + 1 \in Nat /\ Tick \in Nat /\ Tick = past.clock + 1
      BY <2>1 DEF Tick
    <2> QED BY <1>1, <2>1, <2>2
  <1>3. Written("start") \in Content /\ Written("start").rev = Tick
    BY <1>1, WrittenIs
  <1>4. \A s \in Opens :
          /\ memory'[s] = IF s \in changed THEN Written("start") ELSE disk[s]
          /\ disk'[s] = IF s \in partial THEN disk[s] ELSE memory'[s]
          /\ stamp'[s] = IF s \in rows THEN Tick ELSE 0
    BY <1>1
  <1>5. /\ memory' \in [Opens -> Content] /\ disk' \in [Opens -> Content] /\ stamp' \in [Opens -> Nat]
    BY <1>1, <1>2, <1>3 DEF StoreTypes
  <1>6. \A s \in Opens : memory'[s].rev <= Tick /\ disk'[s].rev <= Tick
    <2>1. \A s \in Opens : disk[s].rev <= past.clock /\ disk[s].rev \in Nat
      BY <1>1 DEF StoreInv, OpeningInv, Known, StoreTypes, Content
    <2> QED BY <1>2, <1>3, <1>4, <2>1
  <1>7. ASSUME NEW j \in Opens
        PROVE  /\ open'[j] \in Opening /\ open'[j].session = open[j].session
               /\ open'[j].old = open[j].old
               /\ \/ open'[j].step = open[j].step /\ open[j].step \in {"idle", "answered", "refused"}
                  \/ open'[j].step = "lost" /\ open[j].step \notin {"idle", "answered", "refused"}
    <2>1. open[j] \in [step : Step, session : Opens, old : Content, rev : Nat] /\ "lost" \in Step
      BY <1>1 DEF StoreTypes, Opening, Step
    <2>2. open'[j] = IF open[j].step \in {"idle", "answered", "refused"} THEN open[j]
                     ELSE [open[j] EXCEPT !.step = "lost"]
      BY <1>1
    <2> QED BY <2>1, <2>2 DEF Opening
  <1>8. open' \in [Opens -> Opening]
    BY <1>1, <1>7
  <1>9. StoreTypes'
    <2>1. <<>> \in Seq(SaveOf)
      OBVIOUS
    <2> QED BY <1>1, <1>2, <1>5, <1>8, <2>1 DEF StoreTypes
  <1>10. MarksInv'
    BY <1>1, <1>2, <1>4 DEF StoreInv, MarksInv
  <1>11. ChainInv' /\ SaveInv' /\ QueueInv' /\ ClosedIsSaved'
    BY <1>1 DEF ChainInv, SaveInv, QueueInv, ClosedIsSaved
  <1>12. \A j \in Opens :
           /\ open'[j].step \notin Creating \cup Reconciling \cup {"preparing"}
           /\ open'[j].step \in Fresh => open[j].step \in Fresh
           /\ open'[j].step \in Over \/ open[j].step = "idle"
           /\ open'[j].step = "answered" => open[j].step = "answered"
    BY <1>7 DEF Creating, Reconciling, Over, Fresh
  <1>13. OpeningInv'
    <2>1. \A j \in Opens : /\ open[j].old.rev <= past.clock /\ open[j].old.rev \in Nat
                           /\ open[j].step \in Fresh => open[j].session = j
      BY <1>1 DEF StoreInv, OpeningInv, Known, StoreTypes, Opening, Content
    <2>2. \A j \in Opens : open'[j].old.rev <= Tick
      BY <1>2, <1>7, <2>1
    <2>3. \A j \in Opens : open'[j].step \in Fresh => open'[j].session = j
      BY <1>7, <1>12, <2>1
    <2> QED BY <1>2, <1>6, <1>12, <2>2, <2>3 DEF OpeningInv, Known
  <1>14. SharedInv'
    <2>1. \A s \in Opens : memory'[s] # Absent \/ disk'[s] # Absent => disk[s] # Absent
      BY <1>1, <1>4
    <2>2. \A s \in Opens : disk[s] # Absent => open[s].step \in Creating \cup Over
      BY DEF StoreInv, SharedInv
    <2>3. \A s \in Opens : open[s].step \in Creating \cup Over => open'[s].step \in Over
      BY <1>7, <1>12 DEF Creating, Over
    <2>4. \A j \in Opens : agent = "claude" /\ open[j].step = "answered" =>
             open[j].session \in Opens /\ open[open[j].session].step \in Over
      BY <1>1 DEF StoreInv, SharedInv, StoreTypes, Opening
    <2> QED BY <1>1, <1>7, <1>12, <2>1, <2>2, <2>3, <2>4 DEF SharedInv
  <1>15. UnsavedIsDirty'
    BY <1>1, <1>4 DEF UnsavedIsDirty, Present
  <1> QED BY <1>9, <1>10, <1>11, <1>13, <1>14, <1>15 DEF StoreInv

-----------------------------------------------------------------------------
LEMMA StoreStarts == StoreInit => StoreInv
  <1> SUFFICES ASSUME StoreInit PROVE StoreInv
    OBVIOUS
  <1>1. /\ agent \in {"claude", "codex"} /\ backend = "up"
        /\ memory = [s \in Opens |-> Absent] /\ stamp = [s \in Opens |-> 0]
        /\ marks = [dirty |-> {}, partial |-> {}] /\ disk = [s \in Opens |-> Absent]
        /\ saves = [chain |-> <<>>, timer |-> FALSE]
        /\ open = [o \in Opens |-> [step |-> "idle", session |-> o, old |-> Absent, rev |-> 0]]
        /\ creation = NoOpening
        /\ past = [clock |-> 0, changes |-> 0, failures |-> 0, starts |-> 0, closedAt |-> 0]
    BY DEF StoreInit
  <1>2. \A o \in Opens : open[o] \in Opening /\ open[o].step = "idle" /\ open[o].session = o
                         /\ open[o].old = Absent
    BY <1>1, AbsentContent DEF Opening, Step
  <1>3. StoreTypes
    <2>1. <<>> \in Seq(SaveOf)
      OBVIOUS
    <2> QED BY <1>1, <1>2, <2>1, AbsentContent DEF StoreTypes
  <1>4. MarksInv /\ ChainInv /\ SaveInv /\ QueueInv
    BY <1>1 DEF MarksInv, ChainInv, SaveInv, QueueInv
  <1>5. OpeningInv /\ SharedInv
    <2>1. \A o \in Opens : /\ open[o].step \notin Creating \cup Reconciling \cup {"preparing", "answered"}
                            /\ memory[o] = Absent /\ disk[o] = Absent
      BY <1>1, <1>2 DEF Creating, Reconciling
    <2>2. Known(Absent)
      BY <1>1, <2>1 DEF Known, Absent
    <2> QED BY <1>2, <2>1, <2>2 DEF OpeningInv, SharedInv
  <1>6. UnsavedIsDirty /\ ClosedIsSaved
    BY <1>1 DEF UnsavedIsDirty, ClosedIsSaved, Present
  <1> QED BY <1>3, <1>4, <1>5, <1>6 DEF StoreInv

LEMMA StoreSteps == StoreInv /\ [StoreNext]_StoreVars => StoreInv'
  <1> SUFFICES ASSUME StoreInv, [StoreNext]_StoreVars PROVE StoreInv'
    OBVIOUS
  <1>1. ASSUME NEW o \in Opens,
               \/ ClaudeOpens(o) \/ ClaudePrepared(o) \/ CodexOpens(o) \/ CodexPrepared(o)
               \/ PreparationFails(o) \/ OpeningSaved(o) \/ OpeningNotSaved(o)
        PROVE  StoreInv'
    BY <1>1, ClaudeSteps, CodexSteps, PreparationFailsKeeps, OpeningSavedKeeps, OpeningNotSavedKeeps
  <1>2. CASE \E s \in Opens : SessionIsRead(s)
    BY <1>2, ReadKeeps
  <1>3. CASE \E s \in Opens, saving \in BOOLEAN : SessionChanges(s, saving)
    BY <1>3, ChangeKeeps
  <1>4. CASE OthersSave \/ TimerFires
    BY <1>4, AskKeeps
  <1>5. CASE SaveWrites \/ SaveEnds \/ SaveFails
    BY <1>5, SaveWritesKeeps, SaveEndsKeeps, SaveFailsKeeps
  <1>6. CASE CloseBegins \/ DaemonStops
    BY <1>6, CloseKeeps, StopKeeps
  <1>7. CASE \E partial, changed \in SUBSET Opens : DaemonStarts(partial, changed)
    BY <1>7, StartKeeps
  <1>8. CASE UNCHANGED StoreVars
    <2>1. /\ StoreTypes' /\ MarksInv' /\ ChainInv' /\ SaveInv'
      BY <1>8 DEF StoreVars, StoreInv, StoreTypes, MarksInv, ChainInv, SaveInv, Saver, SavedUnchanged, Working
    <2>2. OpeningInv' /\ SharedInv' /\ QueueInv'
      BY <1>8 DEF StoreVars, StoreInv, OpeningInv, Known, SharedInv, QueueInv
    <2>3. UnsavedIsDirty' /\ ClosedIsSaved'
      BY <1>8 DEF StoreVars, StoreInv, UnsavedIsDirty, Present, ClosedIsSaved, Working
    <2> QED BY <2>1, <2>2, <2>3 DEF StoreInv
  <1> QED BY <1>1, <1>2, <1>3, <1>4, <1>5, <1>6, <1>7, <1>8 DEF StoreNext

(* The sessions, their marks, the chain of saves and the openings agree    *)
(* with each other in every state.                                         *)
THEOREM StoreInvariant == StoreSpec => []StoreInv
  BY StoreStarts, StoreSteps, PTL DEF StoreSpec

(* UnsavedIsDirty: what the table lacks is marked, whatever falls between  *)
(* a save and the moment its sessions are marked as saved                  *)
(* (markPersistenceSnapshotsPersisted, sessionRepository.ts).              *)
THEOREM UnsavedStaysDirty == StoreSpec => []UnsavedIsDirty
  <1>1. StoreInv => UnsavedIsDirty
    BY DEF StoreInv
  <1> QED BY <1>1, StoreInvariant, PTL

(* ClosedIsSaved: a close that ended well has left out nothing that was    *)
(* there when it began (close, storeBackedSessionBackend.ts).              *)
THEOREM CloseSavesAll == StoreSpec => []ClosedIsSaved
  <1>1. StoreInv => ClosedIsSaved
    BY DEF StoreInv
  <1> QED BY <1>1, StoreInvariant, PTL

(* A step that is not a restart leaves a session, gives it a new revision, *)
(* reads it or takes back what a failed opening itself wrote.              *)
LEMMA SessionMoves ==
  ASSUME StoreInv, StoreNext, backend' = backend, NEW s \in Opens \ marks.partial
  PROVE  \/ memory'[s] = memory[s]
         \/ memory'[s].rev = Tick
         \/ \E o \in Opens :
              /\ agent = "claude" /\ IsCurrent(o) /\ open[o].session = s
              /\ open[o].step \in {"uncreated", "unreconciled"}
              /\ open[o].step = "unreconciled" => memory'[s] = open[o].old
  <1>1. StoreTypes /\ memory \in [Opens -> Content]
    BY DEF StoreInv, StoreTypes
  <1>2. ASSUME NEW r \in Opens, NEW by, Put(r, Written(by))
        PROVE  memory'[s] = memory[s] \/ memory'[s].rev = Tick
    BY <1>1, <1>2 DEF Put, Written
  <1>3. ASSUME NEW r \in Opens, Materialized(r)
        PROVE  memory'[s] = memory[s]
    BY <1>1, <1>3 DEF Materialized
  <1>4. ASSUME NEW o \in Opens, ReuseAttached(o)
        PROVE  memory'[s] = memory[s] \/ memory'[s].rev = Tick
    BY <1>2, <1>4 DEF ReuseAttached, Present, Reused, ReconciledOwner
  <1>5. ASSUME NEW o \in Opens, ClaudeOpens(o) \/ ClaudePrepared(o)
        PROVE  memory'[s] = memory[s] \/ memory'[s].rev = Tick
    BY <1>2, <1>4, <1>5 DEF ClaudeOpens, ClaudePrepared, Joins, Prepares, Created
  <1>6. ASSUME NEW o \in Opens, CodexOpens(o) \/ CodexPrepared(o)
        PROVE  memory'[s] = memory[s] \/ memory'[s].rev = Tick
    BY <1>2, <1>3, <1>6 DEF CodexOpens, CodexPrepared, Present, Prepares, Created
  <1>7. ASSUME NEW o \in Opens, PreparationFails(o) \/ OpeningSaved(o)
        PROVE  memory'[s] = memory[s] \/ memory'[s].rev = Tick
    BY <1>2, <1>7 DEF PreparationFails, OpeningSaved
  <1>8. ASSUME NEW o \in Opens, OpeningNotSaved(o), memory'[s] # memory[s]
        PROVE  /\ agent = "claude" /\ IsCurrent(o) /\ open[o].session = s
               /\ open[o].step \in {"uncreated", "unreconciled"}
               /\ open[o].step = "unreconciled" => memory'[s] = open[o].old
    <2>1. open[o].step \in {"uncreated", "unreconciled"} /\ RolledBack(o)
      BY <1>8 DEF OpeningNotSaved
    <2>2. open[o].session \in Opens /\ (open[o].step = "uncreated" => open[o].session = o)
      BY <2>1, OpeningEnds
    <2>3. CASE UNCHANGED <<memory, stamp, marks, past>>
      BY <1>8, <2>3
    <2>4. CASE agent = "claude" /\ IsCurrent(o) /\ open[o].step = "uncreated" /\ Removed(o)
      BY <1>1, <1>8, <2>2, <2>4 DEF Removed
    <2>5. CASE agent = "claude" /\ IsCurrent(o) /\ open[o].step = "unreconciled" /\ Restored(o)
      BY <1>1, <1>8, <2>2, <2>5 DEF Restored, Put
    <2> QED BY <2>1, <2>3, <2>4, <2>5, RolledBackDoes
  <1>9. ASSUME NEW r \in Opens, SessionIsRead(r) \/ \E saving \in BOOLEAN : SessionChanges(r, saving)
        PROVE  memory'[s] = memory[s] \/ memory'[s].rev = Tick
    BY <1>2, <1>3, <1>9 DEF SessionIsRead, SessionChanges
  <1>10. ASSUME \/ OthersSave \/ TimerFires \/ SaveWrites \/ SaveEnds \/ SaveFails
                \/ CloseBegins \/ DaemonStops
         PROVE  memory'[s] = memory[s]
    BY <1>10 DEF OthersSave, TimerFires, SaveWrites, SaveEnds, SaveFails, CloseBegins, DaemonStops
  <1>11. ~ \E partial, changed \in SUBSET Opens : DaemonStarts(partial, changed)
    BY DEF DaemonStarts
  <1> QED BY <1>5, <1>6, <1>7, <1>8, <1>9, <1>10, <1>11 DEF StoreNext

(* NothingUndone: only a failed opening lowers a revision, and only one    *)
(* that is its own (removeSessionIfCurrent, restoreSessionIfCurrent).      *)
THEOREM OnlyOwnUndone == StoreSpec => NothingUndone
  <1> DEFINE Undoes ==
        \A s \in Opens \ marks.partial :
          backend' = backend /\ memory'[s].rev < memory[s].rev => memory[s].by \in Opens
  <1>1. StoreInv /\ [StoreNext]_StoreVars => [Undoes]_StoreVars
    <2> SUFFICES ASSUME StoreInv, StoreNext, NEW s \in Opens \ marks.partial,
                        backend' = backend, memory'[s].rev < memory[s].rev
                 PROVE  memory[s].by \in Opens
      OBVIOUS
    <2>1. /\ memory[s].rev \in Nat /\ memory[s].rev <= past.clock /\ past.clock \in Nat
          /\ Tick = past.clock + 1
      BY DEF StoreInv, StoreTypes, OpeningInv, Known, Content, Tick
    <2>2. memory'[s] # memory[s] /\ memory'[s].rev # Tick
      BY <2>1
    <2>3. PICK o \in Opens : /\ IsCurrent(o) /\ open[o].session = s
                             /\ open[o].step \in {"uncreated", "unreconciled"}
      BY <2>2, SessionMoves
    <2> QED BY <2>3, OpeningEnds
  <1> HIDE DEF Undoes
  <1>2. []StoreInv /\ [][StoreNext]_StoreVars => [][Undoes]_StoreVars
    BY <1>1, PTL
  <1>3. StoreSpec => [][Undoes]_StoreVars
    BY <1>2, StoreInvariant, PTL DEF StoreSpec
  <1> QED BY <1>3 DEF NothingUndone, Undoes

(* NothingTakenBack: nobody has been told of a session that is then        *)
(* removed (runAttachedSessionCreation).                                   *)
THEOREM AnswerStays == StoreSpec => NothingTakenBack
  <1> DEFINE Stays ==
        \A o \in Opens :
          agent = "claude" /\ open[o].step = "answered" /\ backend' = backend
          /\ open[o].session \in Present => memory'[open[o].session] # Absent
  <1>1. StoreInv /\ [StoreNext]_StoreVars => [Stays]_StoreVars
    <2> SUFFICES ASSUME StoreInv, StoreNext, NEW o \in Opens, agent = "claude",
                        open[o].step = "answered", backend' = backend,
                        open[o].session \in Present
                 PROVE  memory'[open[o].session] # Absent
      OBVIOUS
    <2> DEFINE s == open[o].session
    <2>1. /\ s \in Opens \ marks.partial /\ memory[s] # Absent /\ open[s].step \in Over
      BY DEF StoreInv, MarksInv, SharedInv, Present
    <2>2. Tick \in Nat \ {0}
      BY DEF StoreInv, StoreTypes, Tick
    <2>3. CASE memory'[s] = memory[s]
      BY <2>1, <2>3
    <2>4. CASE memory'[s].rev = Tick
      BY <2>2, <2>4 DEF Absent
    <2>5. CASE \E p \in Opens :
                 /\ agent = "claude" /\ IsCurrent(p) /\ open[p].session = s
                 /\ open[p].step \in {"uncreated", "unreconciled"}
                 /\ open[p].step = "unreconciled" => memory'[s] = open[p].old
      <3>1. PICK p \in Opens :
                 /\ open[p].session = s
                 /\ open[p].step \in {"uncreated", "unreconciled"}
                 /\ open[p].step = "unreconciled" => memory'[s] = open[p].old
        BY <2>5
      <3>2. open[p].step # "uncreated"
        <4>1. open[p].step = "uncreated" => s = p
          BY <3>1, OpeningEnds
        <4> QED BY <2>1, <4>1 DEF Over
      <3>3. open[p].step \in Reconciling
        BY <3>1, <3>2 DEF Reconciling
      <3> QED BY <3>1, <3>2, <3>3 DEF StoreInv, SharedInv
    <2> QED BY <2>1, <2>3, <2>4, <2>5, SessionMoves
  <1> HIDE DEF Stays
  <1>2. []StoreInv /\ [][StoreNext]_StoreVars => [][Stays]_StoreVars
    BY <1>1, PTL
  <1>3. StoreSpec => [][Stays]_StoreVars
    BY <1>2, StoreInvariant, PTL DEF StoreSpec
  <1> QED BY <1>3 DEF NothingTakenBack, Stays
====
