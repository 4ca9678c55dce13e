----------------------------- MODULE LocalChatProofs -----------------------------
(***************************************************************************)
(* Theorems about the chats with local models, for every finite set of     *)
(* chats and every size of the gate.                                       *)
(***************************************************************************)
EXTENDS LocalChat, FiniteSetTheorems, TLAPS

Holds == {"granted", "begun", "executing", "resuming"}

CommandType ==
  [kind : {"none", "send", "generation", "mutation"},
   step : {"none", "reading", "queued"} \cup Holds, turn : Nat, cancelled : BOOLEAN]

GenerationType ==
  [step : {"none", "running", "pausing", "saving", "unlinking", "ending", "clearing"},
   turn : Nat, text : BOOLEAN, aborted : BOOLEAN, resumed : BOOLEAN, caught : BOOLEAN]

FileTypes ==
  /\ manifest \in [LocalChats -> [turn : Nat, pending : BOOLEAN, text : BOOLEAN]]
  /\ checkpoint \in [LocalChats -> Nat]
  /\ stored \in [SentTurns -> Nat]
  /\ ended \in [SentTurns -> Nat]
  /\ begun \in [LocalChats -> Nat]
  /\ writeFailures \in Nat

GateTypes ==
  /\ command \in [LocalChats -> CommandType]
  /\ gen \in [LocalChats -> GenerationType]
  /\ slots \in Nat
  /\ interrupt \in [LocalChats -> {"none", "reserved", "waiting"}]
  /\ chatService \in {"recovering", "running", "closing", "draining", "closed"}
  /\ awaited \subseteq LocalChats
  /\ recovery \in [LocalChats -> {"checkpoint", "unlink", "turn", "clear", "done"}]

(* The queue has every command that waits for a slot, once.                *)
QueueOf(waiting, commands) ==
  /\ waiting \in Seq(LocalChats)
  /\ \A i, j \in 1 .. Len(waiting) : waiting[i] = waiting[j] => i = j
  /\ \A c \in LocalChats :
       commands[c].step = "queued" <=> \E i \in 1 .. Len(waiting) : waiting[i] = c

HeldIn(commands) == {c \in LocalChats : commands[c].step \in Holds}
GeneratingIn(gens) == {c \in LocalChats : gens[c].step # "none"}

GateInv ==
  /\ QueueOf(queue, command)
  /\ slots = Cardinality(GeneratingIn(gen)) + Cardinality(HeldIn(command))
  /\ slots <= Concurrency
  /\ queue # <<>> => slots = Concurrency

(* What the step of a command says of its kind and of its chat.            *)
CommandFits(cmd, g) ==
  /\ cmd.step = "none" => cmd = NoCommand
  /\ cmd.kind = "none" => cmd.step = "none"
  /\ g.step = "none" => g = NoGeneration
  /\ cmd.kind = "mutation" => cmd.step = "reading"
  /\ cmd.step = "begun" => cmd.kind = "send"
  /\ cmd.step \in {"executing", "resuming"} => cmd.kind = "generation"
  /\ cmd.kind = "send" => g.step = "none"
  /\ cmd.step \in {"reading", "queued", "granted"} => cmd.turn = 0

CommandInv == \A c \in LocalChats : CommandFits(command[c], gen[c])

(* Commands and generations there are only while the service runs or       *)
(* closes, at the end of which they are the ones it waits for.             *)
PhaseInv ==
  \A c \in LocalChats :
    /\ command[c].step # "none" => chatService \in {"running", "closing"}
    /\ gen[c].step # "none" =>
         (chatService \in {"running", "closing"} \/ (chatService = "draining" /\ c \in awaited))
    /\ recovery[c] # "done" => chatService = "recovering"

ChatInv == FileTypes /\ GateTypes /\ GateInv /\ CommandInv /\ PhaseInv

LEMMA Joins ==
  ASSUME NEW S, IsFiniteSet(S), NEW c, c \notin S
  PROVE  /\ IsFiniteSet(S \cup {c}) /\ Cardinality(S) \in Nat
         /\ Cardinality(S \cup {c}) = Cardinality(S) + 1
  BY FS_AddElement, FS_CardinalityType

LEMMA Leaves ==
  ASSUME NEW S, IsFiniteSet(S), NEW c \in S
  PROVE  /\ IsFiniteSet(S \ {c}) /\ Cardinality(S \ {c}) \in Nat
         /\ Cardinality(S) = Cardinality(S \ {c}) + 1
  <1>1. IsFiniteSet(S \ {c}) /\ Cardinality(S \ {c}) = Cardinality(S) - 1
    BY FS_RemoveElement
  <1>2. Cardinality(S) \in Nat /\ Cardinality(S \ {c}) \in Nat
    BY <1>1, FS_CardinalityType
  <1> QED BY <1>1, <1>2

LEMMA ChatsAreFinite ==
  ASSUME NEW S, S \subseteq LocalChats
  PROVE  IsFiniteSet(S) /\ Cardinality(S) \in Nat
  BY FS_Subset, FS_CardinalityType, LocalChatsAssumption

(* The queue.                                                              *)
LEMMA QueueStays ==
  ASSUME NEW q, NEW old, NEW new, QueueOf(q, old),
         \A c \in LocalChats : (old[c].step = "queued") <=> (new[c].step = "queued")
  PROVE  QueueOf(q, new)
  BY DEF QueueOf

LEMMA QueueGrows ==
  ASSUME NEW q, NEW old, NEW new, NEW c \in LocalChats,
         QueueOf(q, old), old[c].step # "queued", new[c].step = "queued",
         \A d \in LocalChats \ {c} : (old[d].step = "queued") <=> (new[d].step = "queued")
  PROVE  QueueOf(Append(q, c), new)
  <1>1. /\ q \in Seq(LocalChats) /\ Append(q, c) \in Seq(LocalChats)
        /\ Len(Append(q, c)) = Len(q) + 1 /\ Len(q) \in Nat
        /\ \A i \in 1 .. Len(q) : Append(q, c)[i] = q[i]
        /\ Append(q, c)[Len(q) + 1] = c
    BY DEF QueueOf
  <1>2. \A i \in 1 .. Len(q) : q[i] # c
    BY <1>1 DEF QueueOf
  <1>3. ASSUME NEW i \in 1 .. Len(Append(q, c)), NEW j \in 1 .. Len(Append(q, c)),
               Append(q, c)[i] = Append(q, c)[j]
        PROVE  i = j
    <2>1. i \in 1 .. Len(q) \/ i = Len(q) + 1
      BY <1>1
    <2>2. j \in 1 .. Len(q) \/ j = Len(q) + 1
      BY <1>1
    <2> QED BY <1>1, <1>2, <1>3, <2>1, <2>2 DEF QueueOf
  <1>4. ASSUME NEW d \in LocalChats
        PROVE  new[d].step = "queued" <=> \E i \in 1 .. Len(Append(q, c)) : Append(q, c)[i] = d
    <2>1. CASE d = c
      BY <1>1, <2>1
    <2>2. CASE d # c
      <3>1. \A i \in 1 .. Len(Append(q, c)) : Append(q, c)[i] = d => i \in 1 .. Len(q)
        BY <1>1, <2>2
      <3>2. new[d].step = "queued" <=> \E i \in 1 .. Len(q) : q[i] = d
        BY <2>2 DEF QueueOf
      <3>3. \A i \in 1 .. Len(q) : i \in 1 .. Len(Append(q, c))
        BY <1>1
      <3> QED BY <1>1, <3>1, <3>2, <3>3
    <2> QED BY <2>1, <2>2
  <1> QED BY <1>1, <1>3, <1>4 DEF QueueOf

LEMMA QueueAdvances ==
  ASSUME NEW q, NEW old, NEW new, QueueOf(q, old), q # <<>>,
         new[Head(q)].step # "queued",
         \A d \in LocalChats \ {Head(q)} : (old[d].step = "queued") <=> (new[d].step = "queued")
  PROVE  /\ QueueOf(Tail(q), new)
         /\ Head(q) \in LocalChats /\ old[Head(q)].step = "queued"
  <1>1. /\ q \in Seq(LocalChats) /\ Tail(q) \in Seq(LocalChats)
        /\ Len(q) \in Nat /\ Len(q) >= 1 /\ Len(Tail(q)) = Len(q) - 1
        /\ \A i \in 1 .. Len(Tail(q)) : Tail(q)[i] = q[i + 1]
        /\ Head(q) = q[1] /\ Head(q) \in LocalChats
    BY DEF QueueOf
  <1>2. \A i, j \in 1 .. Len(q) : q[i] = q[j] => i = j
    BY DEF QueueOf
  <1>3. \A i, j \in 1 .. Len(Tail(q)) : Tail(q)[i] = Tail(q)[j] => i = j
    BY <1>1, <1>2
  <1>4. \A i \in 2 .. Len(q) : q[i] # Head(q)
    BY <1>1, <1>2
  <1>5. ASSUME NEW d \in LocalChats
        PROVE  new[d].step = "queued" <=> \E i \in 1 .. Len(Tail(q)) : Tail(q)[i] = d
    <2>1. CASE d = Head(q)
      BY <1>1, <1>4, <2>1
    <2>2. CASE d # Head(q)
      <3>1. new[d].step = "queued" <=> \E i \in 1 .. Len(q) : q[i] = d
        BY <2>2 DEF QueueOf
      <3>2. ASSUME NEW i \in 1 .. Len(q), q[i] = d
            PROVE  i - 1 \in 1 .. Len(Tail(q)) /\ Tail(q)[i - 1] = d
        <4>1. i # 1 /\ i - 1 \in 1 .. Len(Tail(q)) /\ (i - 1) + 1 = i
          BY <1>1, <2>2, <3>2
        <4> QED BY <1>1, <3>2, <4>1
      <3>3. ASSUME NEW i \in 1 .. Len(Tail(q)), Tail(q)[i] = d
            PROVE  i + 1 \in 1 .. Len(q) /\ q[i + 1] = d
        BY <1>1, <3>3
      <3> QED BY <3>1, <3>2, <3>3
    <2> QED BY <2>1, <2>2
  <1>6. old[Head(q)].step = "queued"
    BY <1>1 DEF QueueOf
  <1> QED BY <1>1, <1>3, <1>5, <1>6 DEF QueueOf

LEMMA Joined ==
  ASSUME NEW s \in Seq(LocalChats), NEW t \in Seq(LocalChats)
  PROVE  /\ s \o t \in Seq(LocalChats) /\ Len(s \o t) = Len(s) + Len(t)
         /\ \A i \in 1 .. Len(s) + Len(t) :
              (s \o t)[i] = IF i <= Len(s) THEN s[i] ELSE t[i - Len(s)]
  OBVIOUS

LEMMA QueueShrinks ==
  ASSUME NEW q, NEW old, NEW new, NEW c \in LocalChats,
         QueueOf(q, old), old[c].step = "queued", new[c].step # "queued",
         \A d \in LocalChats \ {c} : (old[d].step = "queued") <=> (new[d].step = "queued")
  PROVE  LET rest == RemoveAt(q, CHOOSE i \in DOMAIN q : q[i] = c)
         IN  QueueOf(rest, new) /\ (rest # <<>> => q # <<>>)
  <1> DEFINE k == CHOOSE i \in DOMAIN q : q[i] = c
             rest == RemoveAt(q, k)
  <1>1. q \in Seq(LocalChats) /\ Len(q) \in Nat /\ DOMAIN q = 1 .. Len(q)
    BY DEF QueueOf
  <1>2. k \in 1 .. Len(q) /\ q[k] = c
    BY <1>1 DEF QueueOf
  <1> HIDE DEF k
  <1>3. /\ SubSeq(q, 1, k - 1) \in Seq(LocalChats) /\ Len(SubSeq(q, 1, k - 1)) = k - 1
        /\ \A i \in 1 .. k - 1 : SubSeq(q, 1, k - 1)[i] = q[i]
    BY <1>1, <1>2
  <1>4. /\ SubSeq(q, k + 1, Len(q)) \in Seq(LocalChats)
        /\ Len(SubSeq(q, k + 1, Len(q))) = Len(q) - k
        /\ \A i \in 1 .. Len(q) - k : SubSeq(q, k + 1, Len(q))[i] = q[k + i]
    <2>1. k + 1 \in 1 .. Len(q) + 1 /\ k \in Nat
      BY <1>1, <1>2
    <2>2. \A i \in 1 .. Len(q) - k : k + i \in 1 .. Len(q) /\ (k + 1) + i - 1 = k + i
      BY <1>1, <1>2
    <2>3. \A j \in k + 1 .. Len(q) : q[j] \in LocalChats
      BY <1>1, <2>1
    <2>4. Len(q) - (k + 1) + 1 = Len(q) - k /\ Len(q) - k \in Nat
      BY <1>1, <1>2
    <2>5. SubSeq(q, k + 1, Len(q)) = [i \in 1 .. Len(q) - k |-> q[k + i]]
      BY <1>1, <2>1, <2>2, <2>4
    <2>6. [i \in 1 .. Len(q) - k |-> q[k + i]] \in Seq(LocalChats)
      BY <1>1, <2>2, <2>4
    <2>7. Len([i \in 1 .. Len(q) - k |-> q[k + i]]) = Len(q) - k
      BY <2>4
    <2>8. \A i \in 1 .. Len(q) - k : [j \in 1 .. Len(q) - k |-> q[k + j]][i] = q[k + i]
      OBVIOUS
    <2> QED BY ONLY <2>5, <2>6, <2>7, <2>8
  <1>5. rest = SubSeq(q, 1, k - 1) \o SubSeq(q, k + 1, Len(q))
    BY DEF RemoveAt
  <1> HIDE DEF rest
  <1>6. /\ rest \in Seq(LocalChats) /\ Len(rest) = Len(q) - 1
        /\ \A i \in 1 .. Len(rest) : rest[i] = IF i < k THEN q[i] ELSE q[i + 1]
    <2> DEFINE front == SubSeq(q, 1, k - 1)
               back == SubSeq(q, k + 1, Len(q))
    <2>1. /\ front \in Seq(LocalChats) /\ Len(front) = k - 1
          /\ \A i \in 1 .. k - 1 : front[i] = q[i]
          /\ back \in Seq(LocalChats) /\ Len(back) = Len(q) - k
          /\ \A i \in 1 .. Len(q) - k : back[i] = q[k + i]
          /\ rest = front \o back
      BY <1>3, <1>4, <1>5
    <2> HIDE DEF front, back
    <2>2. /\ rest \in Seq(LocalChats) /\ Len(rest) = (k - 1) + (Len(q) - k)
          /\ \A i \in 1 .. (k - 1) + (Len(q) - k) :
               rest[i] = IF i <= k - 1 THEN front[i] ELSE back[i - (k - 1)]
      <3>1. /\ front \o back \in Seq(LocalChats) /\ Len(front \o back) = Len(front) + Len(back)
            /\ \A i \in 1 .. Len(front) + Len(back) :
                 (front \o back)[i] = IF i <= Len(front) THEN front[i] ELSE back[i - Len(front)]
        <4>1. front \in Seq(LocalChats) /\ back \in Seq(LocalChats)
          BY <2>1
        <4> QED BY ONLY <4>1, Joined
      <3> QED BY <2>1, <3>1
    <2>3. Len(rest) = Len(q) - 1 /\ k \in Nat
      BY <1>1, <1>2, <2>2
    <2>4. ASSUME NEW i \in 1 .. Len(rest), i < k
          PROVE  rest[i] = q[i]
      <3>1. i \in 1 .. k - 1 /\ i <= k - 1 /\ i \in 1 .. (k - 1) + (Len(q) - k)
        BY <1>1, <1>2, <2>3, <2>4
      <3> QED BY <2>1, <2>2, <3>1
    <2>5. ASSUME NEW i \in 1 .. Len(rest), ~(i < k)
          PROVE  rest[i] = q[i + 1]
      <3>1. /\ i - (k - 1) \in 1 .. Len(q) - k /\ ~(i <= k - 1)
            /\ i \in 1 .. (k - 1) + (Len(q) - k) /\ k + (i - (k - 1)) = i + 1
        BY <1>1, <1>2, <2>3, <2>5
      <3>2. rest[i] = back[i - (k - 1)] /\ back[i - (k - 1)] = q[k + (i - (k - 1))]
        BY <2>1, <2>2, <3>1
      <3> QED BY <3>1, <3>2
    <2> QED BY <2>2, <2>3, <2>4, <2>5
  <1>7. \A i, j \in 1 .. Len(q) : q[i] = q[j] => i = j
    BY DEF QueueOf
  <1>8. ASSUME NEW i \in 1 .. Len(rest), NEW j \in 1 .. Len(rest), rest[i] = rest[j]
        PROVE  i = j
    <2> DEFINE place(n) == IF n < k THEN n ELSE n + 1
    <2>1. place(i) \in 1 .. Len(q) /\ rest[i] = q[place(i)]
      BY <1>1, <1>2, <1>6
    <2>2. place(j) \in 1 .. Len(q) /\ rest[j] = q[place(j)]
      BY <1>1, <1>2, <1>6
    <2>3. place(i) = place(j)
      BY <1>7, <1>8, <2>1, <2>2
    <2> QED BY <1>2, <1>6, <2>3
  <1>9. ASSUME NEW d \in LocalChats
        PROVE  new[d].step = "queued" <=> \E i \in 1 .. Len(rest) : rest[i] = d
    <2>1. \A i \in 1 .. Len(rest) : rest[i] # c
      BY <1>1, <1>2, <1>6, <1>7
    <2>2. CASE d = c
      BY <2>1, <2>2
    <2>3. CASE d # c
      <3>1. new[d].step = "queued" <=> \E i \in 1 .. Len(q) : q[i] = d
        BY <2>3 DEF QueueOf
      <3>2. ASSUME NEW i \in 1 .. Len(q), q[i] = d
            PROVE  \E j \in 1 .. Len(rest) : rest[j] = d
        <4>1. CASE i < k
          BY <1>1, <1>2, <1>6, <3>2, <4>1
        <4>2. CASE i > k
          <5>1. i - 1 \in 1 .. Len(rest) /\ ~(i - 1 < k) /\ (i - 1) + 1 = i
            BY <1>1, <1>2, <1>6, <4>2
          <5>2. rest[i - 1] = q[(i - 1) + 1]
            BY <1>6, <5>1
          <5> QED BY <3>2, <5>1, <5>2
        <4>3. CASE i = k
          BY <1>2, <2>3, <3>2, <4>3
        <4> QED BY <1>1, <1>2, <4>1, <4>2, <4>3
      <3>3. ASSUME NEW i \in 1 .. Len(rest), rest[i] = d
            PROVE  \E j \in 1 .. Len(q) : q[j] = d
        BY <1>1, <1>2, <1>6, <3>3
      <3> QED BY <3>1, <3>2, <3>3
    <2> QED BY <2>2, <2>3
  <1>10. q # <<>>
    BY <1>1, <1>2
  <1> QED BY <1>6, <1>8, <1>9, <1>10 DEF QueueOf, k, rest

(* A slot is released: to the next command, if there is one.  The commands *)
(* are those without the one that has held it.                             *)
LEMMA ReleaseIsCounted ==
  ASSUME NEW commands \in [LocalChats -> CommandType], NEW n \in Nat,
         SlotReleased(commands), QueueOf(queue, commands), slots \in Nat,
         slots = n + Cardinality(HeldIn(commands)) + 1,
         slots <= Concurrency, queue # <<>> => slots = Concurrency
  PROVE  /\ command' \in [LocalChats -> CommandType]
         /\ QueueOf(queue', command')
         /\ slots' \in Nat /\ slots' = n + Cardinality(HeldIn(command'))
         /\ slots' <= Concurrency /\ (queue' # <<>> => slots' = Concurrency)
         /\ \A d \in LocalChats :
              \/ command'[d] = commands[d]
              \/ /\ commands[d].step = "queued"
                 /\ command'[d] = [commands[d] EXCEPT !.step = "granted"]
  <1>1. IsFiniteSet(HeldIn(commands)) /\ Cardinality(HeldIn(commands)) \in Nat
    BY ChatsAreFinite DEF HeldIn
  <1>2. CASE queue = <<>>
    <2>1. slots' = slots - 1 /\ command' = commands /\ queue' = queue
      BY <1>2 DEF SlotReleased
    <2> QED BY <1>1, <1>2, <2>1, GateAssumption
  <1>3. CASE queue # <<>>
    <2> DEFINE h == Head(queue)
    <2>1. /\ command' = [commands EXCEPT ![h].step = "granted"]
          /\ queue' = Tail(queue) /\ slots' = slots
      BY <1>3 DEF SlotReleased
    <2>2. h \in LocalChats
      BY <1>3 DEF QueueOf
    <2>3. /\ command' \in [LocalChats -> CommandType]
          /\ command'[h] = [commands[h] EXCEPT !.step = "granted"] /\ command'[h].step = "granted"
          /\ \A d \in LocalChats \ {h} : command'[d] = commands[d]
      BY <2>1, <2>2 DEF CommandType, Holds
    <2>4. QueueOf(queue', command') /\ commands[h].step = "queued"
      <3>1. /\ command'[h].step # "queued"
            /\ \A d \in LocalChats \ {h} :
                 (commands[d].step = "queued") <=> (command'[d].step = "queued")
        BY <2>3
      <3> QED BY <1>3, <2>1, <3>1, QueueAdvances
    <2> HIDE DEF h
    <2>5. h \notin HeldIn(commands) /\ HeldIn(command') = HeldIn(commands) \cup {h}
      BY <2>2, <2>3, <2>4 DEF HeldIn, Holds
    <2>6. Cardinality(HeldIn(command')) = Cardinality(HeldIn(commands)) + 1
      BY <1>1, <2>5, Joins
    <2>7. slots' = n + Cardinality(HeldIn(command'))
      BY <1>1, <2>1, <2>6
    <2>8. slots' <= Concurrency /\ slots' = Concurrency /\ slots' \in Nat
      BY <1>3, <2>1
    <2> QED BY <2>3, <2>4, <2>7, <2>8
  <1> QED BY <1>2, <1>3

(* What an interrupt sees of a command that has ended: it may abort the    *)
(* generation, which is otherwise as it was.                               *)
Alike(g, h) ==
  /\ g.step = h.step /\ g.turn = h.turn /\ g.text = h.text
  /\ g.resumed = h.resumed /\ g.caught = h.caught
  /\ g.step = "none" => g = NoGeneration

LEMMA SeenIsAlike ==
  ASSUME NEW c \in LocalChats, NEW gens \in [LocalChats -> GenerationType],
         \A d \in LocalChats : gens[d].step = "none" => gens[d] = NoGeneration,
         interrupt \in [LocalChats -> {"none", "reserved", "waiting"}],
         SeenByInterrupt(c, gens)
  PROVE  /\ gen' \in [LocalChats -> GenerationType]
         /\ interrupt' \in [LocalChats -> {"none", "reserved", "waiting"}]
         /\ \A d \in LocalChats \ {c} : gen'[d] = gens[d] /\ interrupt'[d] = interrupt[d]
         /\ \A d \in LocalChats : Alike(gen'[d], gens[d])
  <1>1. CASE gen' = gens /\ interrupt' = interrupt
    BY <1>1 DEF Alike
  <1>2. CASE gen' = gens /\ interrupt' = [interrupt EXCEPT ![c] = "none"]
    BY <1>2 DEF Alike
  <1>3. CASE /\ gen' = [gens EXCEPT ![c].aborted = TRUE] /\ gens[c] # NoGeneration
             /\ interrupt' = [interrupt EXCEPT ![c] = "waiting"]
    <2>1. /\ gen' \in [LocalChats -> GenerationType]
          /\ \A d \in LocalChats \ {c} : gen'[d] = gens[d]
          /\ gen'[c] = [gens[c] EXCEPT !.aborted = TRUE]
      BY <1>3 DEF GenerationType
    <2>2. gens[c] \in GenerationType
      OBVIOUS
    <2>3. Alike(gen'[c], gens[c])
      BY <1>3, <2>1, <2>2 DEF Alike, GenerationType
    <2>4. \A d \in LocalChats \ {c} : Alike(gen'[d], gens[d])
      BY <2>1 DEF Alike
    <2> QED BY <1>3, <2>1, <2>3, <2>4
  <1> QED BY <1>1, <1>2, <1>3 DEF SeenByInterrupt

(* What a step of one chat has to show: it leaves the others alone, but    *)
(* that the next command may be granted the slot that it has released.     *)
Moved(old, new) ==
  new = old \/ (old.step = "queued" /\ new = [old EXCEPT !.step = "granted"])

LEMMA ChatStep ==
  ASSUME ChatInv, NEW c \in LocalChats, UNCHANGED ChatLife,
         command' \in [LocalChats -> CommandType], gen' \in [LocalChats -> GenerationType],
         slots' \in Nat, interrupt' \in [LocalChats -> {"none", "reserved", "waiting"}],
         \A d \in LocalChats \ {c} : Moved(command[d], command'[d]) /\ gen'[d] = gen[d],
         CommandFits(command'[c], gen'[c]),
         command'[c].step # "none" => (command[c].step # "none" \/ chatService = "running"),
         gen'[c].step # "none" => (gen[c].step # "none" \/ command[c].step # "none")
  PROVE  GateTypes' /\ CommandInv' /\ PhaseInv'
  <1>1. /\ GateTypes /\ CommandInv /\ PhaseInv
        /\ chatService' = chatService /\ awaited' = awaited /\ recovery' = recovery
    BY DEF ChatInv, ChatLife
  <1>2. GateTypes'
    BY <1>1 DEF GateTypes
  <1>3. ASSUME NEW d \in LocalChats \ {c}
        PROVE  /\ CommandFits(command'[d], gen'[d])
               /\ command'[d].step # "none" => command[d].step # "none"
    <2>1. CommandFits(command[d], gen[d]) /\ command[d] \in CommandType
      BY <1>1 DEF CommandInv, GateTypes
    <2>2. CASE command'[d] = command[d]
      BY <2>1, <2>2
    <2>3. CASE /\ command[d].step = "queued"
               /\ command'[d] = [command[d] EXCEPT !.step = "granted"]
      <3>1. /\ command'[d].step = "granted" /\ command'[d].kind = command[d].kind
            /\ command'[d].turn = command[d].turn
        BY <2>1, <2>3 DEF CommandType
      <3> QED BY <2>1, <2>3, <3>1 DEF CommandFits
    <2> QED BY <2>2, <2>3 DEF Moved
  <1>4. CommandInv'
    BY <1>3 DEF CommandInv
  <1>5. PhaseInv'
    <2> SUFFICES ASSUME NEW d \in LocalChats
                 PROVE  /\ command'[d].step # "none" => chatService \in {"running", "closing"}
                        /\ gen'[d].step # "none" =>
                             (\/ chatService \in {"running", "closing"}
                              \/ chatService = "draining" /\ d \in awaited)
                        /\ recovery[d] # "done" => chatService = "recovering"
      BY <1>1 DEF PhaseInv
    <2>1. CASE d = c
      BY <1>1, <2>1 DEF PhaseInv
    <2>2. CASE d # c
      BY <1>1, <1>3, <2>2 DEF PhaseInv
    <2> QED BY <2>1, <2>2
  <1> QED BY <1>2, <1>4, <1>5

(* A command is over, and releases nothing.                                *)
LEMMA EndIsCounted ==
  ASSUME ChatInv, NEW c \in LocalChats, command[c].step = "reading",
         CommandEnds(c), UNCHANGED ChatLife
  PROVE  /\ GateTypes' /\ GateInv' /\ CommandInv' /\ PhaseInv'
         /\ command'[c] = NoCommand
         /\ \A d \in LocalChats \ {c} : Moved(command[d], command'[d])
         /\ \A d \in LocalChats : Alike(gen'[d], gen[d])
  <1>1. /\ command' = [command EXCEPT ![c] = NoCommand] /\ slots' = slots /\ queue' = queue
        /\ GateTypes /\ GateInv /\ CommandInv /\ SeenByInterrupt(c, gen)
    BY DEF CommandEnds, WithoutCommand, ChatGate, ChatInv
  <1>2. /\ gen' \in [LocalChats -> GenerationType]
        /\ interrupt' \in [LocalChats -> {"none", "reserved", "waiting"}]
        /\ \A d \in LocalChats \ {c} : gen'[d] = gen[d]
        /\ \A d \in LocalChats : Alike(gen'[d], gen[d])
    BY <1>1, SeenIsAlike DEF GateTypes, CommandInv, CommandFits
  <1>3. NoCommand \in CommandType /\ NoCommand.step = "none" /\ NoCommand.kind = "none"
    BY DEF NoCommand, CommandType
  <1>4. /\ command' \in [LocalChats -> CommandType]
        /\ command'[c] = NoCommand /\ \A d \in LocalChats \ {c} : command'[d] = command[d]
    BY <1>1, <1>3 DEF GateTypes
  <1>5. GateTypes' /\ CommandInv' /\ PhaseInv'
    <2>1. CommandFits(command'[c], gen'[c])
      BY <1>2, <1>3, <1>4 DEF CommandFits, Alike
    <2>2. gen'[c].step = gen[c].step /\ slots' \in Nat
      BY <1>1, <1>2 DEF Alike, GateTypes
    <2> QED BY <1>2, <1>3, <1>4, <2>1, <2>2, ChatStep DEF Moved
  <1>6. GeneratingIn(gen') = GeneratingIn(gen) /\ HeldIn(command') = HeldIn(command)
    BY <1>2, <1>3, <1>4 DEF GeneratingIn, HeldIn, Alike, Holds
  <1>7. QueueOf(queue', command')
    <2>1. \A d \in LocalChats : (command[d].step = "queued") <=> (command'[d].step = "queued")
      BY <1>3, <1>4
    <2>2. QueueOf(queue, command)
      BY <1>1 DEF GateInv
    <2>3. QueueOf(queue, command')
      BY <2>1, <2>2, QueueStays
    <2>4. queue' = queue
      BY <1>1
    <2> QED BY <2>3, <2>4
  <1>8. GateInv'
    BY <1>1, <1>6, <1>7 DEF GateInv
  <1> QED BY <1>2, <1>4, <1>5, <1>8 DEF Moved

(* A command that has held a slot is over, and releases it.                *)
LEMMA EndAndReleaseIsCounted ==
  ASSUME ChatInv, NEW c \in LocalChats, command[c].step \in Holds,
         CommandEndsAndReleases(c), UNCHANGED ChatLife
  PROVE  /\ GateTypes' /\ GateInv' /\ CommandInv' /\ PhaseInv'
         /\ command'[c] = NoCommand
         /\ \A d \in LocalChats \ {c} : Moved(command[d], command'[d])
         /\ \A d \in LocalChats : Alike(gen'[d], gen[d])
  <1> DEFINE without == [command EXCEPT ![c] = NoCommand]
  <1>1. /\ SlotReleased(without) /\ SeenByInterrupt(c, gen)
        /\ GateTypes /\ GateInv /\ CommandInv
    BY DEF CommandEndsAndReleases, WithoutCommand, ChatInv
  <1>2. /\ gen' \in [LocalChats -> GenerationType]
        /\ interrupt' \in [LocalChats -> {"none", "reserved", "waiting"}]
        /\ \A d \in LocalChats \ {c} : gen'[d] = gen[d]
        /\ \A d \in LocalChats : Alike(gen'[d], gen[d])
    BY <1>1, SeenIsAlike DEF GateTypes, CommandInv, CommandFits
  <1>3. NoCommand \in CommandType /\ NoCommand.step = "none" /\ NoCommand.kind = "none"
    BY DEF NoCommand, CommandType
  <1>4. /\ without \in [LocalChats -> CommandType]
        /\ without[c] = NoCommand /\ \A d \in LocalChats \ {c} : without[d] = command[d]
    BY <1>1, <1>3 DEF GateTypes
  <1> HIDE DEF without
  <1>5. QueueOf(queue, without)
    <2>1. \A d \in LocalChats : (command[d].step = "queued") <=> (without[d].step = "queued")
      BY <1>3, <1>4 DEF Holds
    <2>2. QueueOf(queue, command)
      BY <1>1 DEF GateInv
    <2> QED BY <2>1, <2>2, QueueStays
  <1> DEFINE n == Cardinality(GeneratingIn(gen))
  <1>6. n \in Nat /\ slots = n + Cardinality(HeldIn(without)) + 1
    <2>1. HeldIn(without) = HeldIn(command) \ {c} /\ c \in HeldIn(command)
      BY <1>3, <1>4 DEF HeldIn, Holds
    <2>2. IsFiniteSet(HeldIn(command)) /\ n \in Nat
      BY ChatsAreFinite DEF HeldIn, GeneratingIn
    <2>3. Cardinality(HeldIn(command)) = Cardinality(HeldIn(without)) + 1
          /\ Cardinality(HeldIn(without)) \in Nat
      BY <2>1, <2>2, Leaves
    <2> QED BY <1>1, <2>2, <2>3 DEF GateInv
  <1>7. GeneratingIn(gen') = GeneratingIn(gen)
    BY <1>2 DEF GeneratingIn, Alike
  <1>8. slots \in Nat /\ slots <= Concurrency /\ (queue # <<>> => slots = Concurrency)
    BY <1>1 DEF GateTypes, GateInv
  <1> HIDE DEF n
  <1>9. /\ command' \in [LocalChats -> CommandType]
        /\ QueueOf(queue', command')
        /\ slots' \in Nat /\ slots' = n + Cardinality(HeldIn(command'))
        /\ slots' <= Concurrency /\ (queue' # <<>> => slots' = Concurrency)
        /\ \A d \in LocalChats : Moved(without[d], command'[d])
    BY <1>1, <1>4, <1>5, <1>6, <1>8, ReleaseIsCounted DEF Moved
  <1>10. GateInv'
    BY <1>7, <1>9 DEF GateInv, n
  <1>11. command'[c] = NoCommand /\ \A d \in LocalChats \ {c} : Moved(command[d], command'[d])
    BY <1>3, <1>4, <1>9 DEF Moved
  <1>12. CommandFits(command'[c], gen'[c]) /\ gen'[c].step = gen[c].step
    BY <1>2, <1>3, <1>11 DEF CommandFits, Alike
  <1> QED BY <1>2, <1>3, <1>9, <1>10, <1>11, <1>12, ChatStep

(* A command starts a generation, which has its slot now.                  *)
LEMMA StartIsCounted ==
  ASSUME ChatInv, NEW c \in LocalChats, NEW g \in GenerationType,
         command[c].step \in Holds, gen[c].step = "none", g.step # "none",
         StartsGeneration(c, g), UNCHANGED ChatLife
  PROVE  /\ GateTypes' /\ GateInv' /\ CommandInv' /\ PhaseInv'
         /\ command' = [command EXCEPT ![c] = NoCommand]
         /\ Alike(gen'[c], g) /\ \A d \in LocalChats \ {c} : gen'[d] = gen[d]
  <1> DEFINE gens == [gen EXCEPT ![c] = g]
  <1>1. /\ command' = [command EXCEPT ![c] = NoCommand] /\ slots' = slots /\ queue' = queue
        /\ GateTypes /\ GateInv /\ CommandInv /\ SeenByInterrupt(c, gens)
    BY DEF StartsGeneration, WithoutCommand, ChatGate, ChatInv
  <1>2. /\ gens \in [LocalChats -> GenerationType]
        /\ gens[c] = g /\ \A d \in LocalChats \ {c} : gens[d] = gen[d]
    BY <1>1 DEF GateTypes
  <1> HIDE DEF gens
  <1>3. \A d \in LocalChats : gens[d].step = "none" => gens[d] = NoGeneration
    BY <1>1, <1>2 DEF CommandInv, CommandFits
  <1>4. /\ gen' \in [LocalChats -> GenerationType]
        /\ interrupt' \in [LocalChats -> {"none", "reserved", "waiting"}]
        /\ \A d \in LocalChats \ {c} : gen'[d] = gen[d]
        /\ Alike(gen'[c], g)
    BY <1>1, <1>2, <1>3, SeenIsAlike DEF GateTypes
  <1>5. NoCommand \in CommandType /\ NoCommand.step = "none" /\ NoCommand.kind = "none"
    BY DEF NoCommand, CommandType
  <1>6. /\ command' \in [LocalChats -> CommandType]
        /\ command'[c] = NoCommand /\ \A d \in LocalChats \ {c} : command'[d] = command[d]
    BY <1>1, <1>5 DEF GateTypes
  <1>7. QueueOf(queue', command')
    <2>1. \A d \in LocalChats : (command[d].step = "queued") <=> (command'[d].step = "queued")
      BY <1>5, <1>6 DEF Holds
    <2>2. QueueOf(queue, command)
      BY <1>1 DEF GateInv
    <2>3. QueueOf(queue, command')
      BY <2>1, <2>2, QueueStays
    <2>4. queue' = queue
      BY <1>1
    <2> QED BY <2>3, <2>4
  <1>8. /\ Cardinality(HeldIn(command)) = Cardinality(HeldIn(command')) + 1
        /\ Cardinality(HeldIn(command')) \in Nat
    <2>1. HeldIn(command') = HeldIn(command) \ {c} /\ c \in HeldIn(command)
      BY <1>5, <1>6 DEF HeldIn, Holds
    <2>2. IsFiniteSet(HeldIn(command))
      BY ChatsAreFinite DEF HeldIn
    <2> QED BY <2>1, <2>2, Leaves
  <1>9. /\ Cardinality(GeneratingIn(gen')) = Cardinality(GeneratingIn(gen)) + 1
        /\ Cardinality(GeneratingIn(gen)) \in Nat
    <2>1. GeneratingIn(gen') = GeneratingIn(gen) \cup {c} /\ c \notin GeneratingIn(gen)
      BY <1>4 DEF GeneratingIn, Alike
    <2>2. IsFiniteSet(GeneratingIn(gen))
      BY ChatsAreFinite DEF GeneratingIn
    <2> QED BY <2>1, <2>2, Joins
  <1>10. GateInv'
    BY <1>1, <1>7, <1>8, <1>9 DEF GateInv
  <1>11. CommandFits(command'[c], gen'[c]) /\ command[c].step # "none" /\ slots' \in Nat
    BY <1>1, <1>4, <1>5, <1>6 DEF CommandFits, Alike, Holds, GateTypes
  <1> QED BY <1>1, <1>4, <1>5, <1>6, <1>10, <1>11, ChatStep DEF Moved

(* A generation is over, and releases its slot.                            *)
LEMMA GenerationEndIsCounted ==
  ASSUME ChatInv, NEW c \in LocalChats, gen[c].step # "none",
         GenerationEnds(c), UNCHANGED ChatLife
  PROVE  /\ GateTypes' /\ GateInv' /\ CommandInv' /\ PhaseInv'
         /\ gen' = [gen EXCEPT ![c] = NoGeneration]
         /\ \A d \in LocalChats : Moved(command[d], command'[d])
  <1>1. /\ gen' = [gen EXCEPT ![c] = NoGeneration] /\ SlotReleased(command)
        /\ interrupt' = [interrupt EXCEPT ![c] = IF @ = "waiting" THEN "none" ELSE @]
        /\ GateTypes /\ GateInv /\ CommandInv
    BY DEF GenerationEnds, ChatInv
  <1>2. NoGeneration \in GenerationType /\ NoGeneration.step = "none"
    BY DEF NoGeneration, GenerationType
  <1>3. /\ gen' \in [LocalChats -> GenerationType]
        /\ gen'[c] = NoGeneration /\ \A d \in LocalChats \ {c} : gen'[d] = gen[d]
        /\ interrupt' \in [LocalChats -> {"none", "reserved", "waiting"}]
    BY <1>1, <1>2 DEF GateTypes
  <1>4. /\ Cardinality(GeneratingIn(gen)) = Cardinality(GeneratingIn(gen')) + 1
        /\ Cardinality(GeneratingIn(gen')) \in Nat
    <2>1. GeneratingIn(gen') = GeneratingIn(gen) \ {c} /\ c \in GeneratingIn(gen)
      BY <1>2, <1>3 DEF GeneratingIn
    <2>2. IsFiniteSet(GeneratingIn(gen))
      BY ChatsAreFinite DEF GeneratingIn
    <2> QED BY <2>1, <2>2, Leaves
  <1> DEFINE n == Cardinality(GeneratingIn(gen'))
  <1>5. Cardinality(HeldIn(command)) \in Nat
    BY ChatsAreFinite DEF HeldIn
  <1>6. slots = n + Cardinality(HeldIn(command)) + 1 /\ n \in Nat
    BY <1>1, <1>4, <1>5 DEF GateInv
  <1>7. /\ slots \in Nat /\ slots <= Concurrency /\ (queue # <<>> => slots = Concurrency)
        /\ command \in [LocalChats -> CommandType] /\ QueueOf(queue, command)
    BY <1>1 DEF GateTypes, GateInv
  <1> HIDE DEF n
  <1>8. /\ command' \in [LocalChats -> CommandType]
        /\ QueueOf(queue', command')
        /\ slots' \in Nat /\ slots' = n + Cardinality(HeldIn(command'))
        /\ slots' <= Concurrency /\ (queue' # <<>> => slots' = Concurrency)
        /\ \A d \in LocalChats : Moved(command[d], command'[d])
    BY <1>1, <1>6, <1>7, ReleaseIsCounted DEF Moved
  <1>9. GateInv'
    BY <1>8 DEF GateInv, n
  <1>10. CommandFits(command[c], gen[c]) /\ command[c] \in CommandType
    BY <1>1 DEF CommandInv, GateTypes
  <1>11. /\ CommandFits(command'[c], gen'[c])
         /\ command'[c].step # "none" => command[c].step # "none"
    <2>1. CASE command'[c] = command[c]
      BY <1>2, <1>3, <1>10, <2>1 DEF CommandFits
    <2>2. CASE /\ command[c].step = "queued"
               /\ command'[c] = [command[c] EXCEPT !.step = "granted"]
      <3>1. /\ command'[c].step = "granted" /\ command'[c].kind = command[c].kind
            /\ command'[c].turn = command[c].turn
        BY <1>10, <2>2 DEF CommandType
      <3> QED BY <1>2, <1>3, <1>10, <2>2, <3>1 DEF CommandFits
    <2> QED BY <1>8, <2>1, <2>2 DEF Moved
  <1> QED BY <1>1, <1>2, <1>3, <1>8, <1>9, <1>11, ChatStep

(* A command goes on without the gate, and so does a generation.           *)
LEMMA CommandMoves ==
  ASSUME ChatInv, NEW c \in LocalChats, NEW cmd \in CommandType,
         command' = [command EXCEPT ![c] = cmd],
         UNCHANGED <<ChatGate, gen, interrupt, ChatLife>>,
         command[c].step # "queued", cmd.step # "queued",
         (cmd.step \in Holds) <=> (command[c].step \in Holds),
         CommandFits(cmd, gen[c]),
         cmd.step # "none" => (command[c].step # "none" \/ chatService = "running")
  PROVE  GateTypes' /\ GateInv' /\ CommandInv' /\ PhaseInv'
  <1>1. /\ slots' = slots /\ queue' = queue /\ gen' = gen /\ interrupt' = interrupt
        /\ GateTypes /\ GateInv /\ UNCHANGED ChatLife
    BY DEF ChatGate, ChatInv
  <1>2. /\ command' \in [LocalChats -> CommandType] /\ command'[c] = cmd
        /\ \A d \in LocalChats \ {c} : command'[d] = command[d]
    BY <1>1 DEF GateTypes
  <1>3. \A d \in LocalChats : (command[d].step = "queued") <=> (command'[d].step = "queued")
    BY <1>2
  <1>4. QueueOf(queue, command)
    BY <1>1 DEF GateInv
  <1>5. QueueOf(queue, command')
    BY ONLY <1>3, <1>4, QueueStays
  <1>6. HeldIn(command') = HeldIn(command)
    BY <1>2 DEF HeldIn
  <1>7. GateInv'
    BY <1>1, <1>5, <1>6 DEF GateInv
  <1>8. CommandFits(command'[c], gen'[c]) /\ gen' \in [LocalChats -> GenerationType]
    BY <1>1, <1>2 DEF GateTypes
  <1>9. slots' \in Nat /\ interrupt' \in [LocalChats -> {"none", "reserved", "waiting"}]
    BY <1>1 DEF GateTypes
  <1>10. \A d \in LocalChats \ {c} : Moved(command[d], command'[d]) /\ gen'[d] = gen[d]
    BY <1>1, <1>2 DEF Moved
  <1>11. gen'[c].step # "none" => (gen[c].step # "none" \/ command[c].step # "none")
    BY <1>1
  <1> QED BY <1>1, <1>2, <1>7, <1>8, <1>9, <1>10, <1>11, ChatStep

LEMMA GenerationMoves ==
  ASSUME ChatInv, NEW c \in LocalChats, NEW g \in GenerationType,
         gen' = [gen EXCEPT ![c] = g], g.step # "none", gen[c].step # "none",
         UNCHANGED <<ChatGate, command, interrupt, ChatLife>>
  PROVE  GateTypes' /\ GateInv' /\ CommandInv' /\ PhaseInv'
  <1>1. /\ slots' = slots /\ queue' = queue /\ command' = command /\ interrupt' = interrupt
        /\ GateTypes /\ GateInv /\ CommandInv /\ UNCHANGED ChatLife
    BY DEF ChatGate, ChatInv
  <1>2. /\ gen' \in [LocalChats -> GenerationType] /\ gen'[c] = g
        /\ \A d \in LocalChats \ {c} : gen'[d] = gen[d]
    BY <1>1 DEF GateTypes
  <1>3. GeneratingIn(gen') = GeneratingIn(gen)
    BY <1>2 DEF GeneratingIn
  <1>4. GateInv'
    BY <1>1, <1>3 DEF GateInv
  <1>5. CommandFits(command'[c], gen'[c])
    BY <1>1, <1>2 DEF CommandInv, CommandFits
  <1>6. command' \in [LocalChats -> CommandType] /\ slots' \in Nat
        /\ interrupt' \in [LocalChats -> {"none", "reserved", "waiting"}]
    BY <1>1 DEF GateTypes
  <1>7. \A d \in LocalChats \ {c} : Moved(command[d], command'[d]) /\ gen'[d] = gen[d]
    BY <1>1, <1>2 DEF Moved
  <1>8. command'[c].step # "none" => (command[c].step # "none" \/ chatService = "running")
    BY <1>1
  <1> QED BY <1>1, <1>2, <1>4, <1>5, <1>6, <1>7, <1>8, ChatStep

GateKept == GateTypes' /\ GateInv' /\ CommandInv' /\ PhaseInv'

LEMMA BeginsKeep ==
  ASSUME ChatInv, NEW c \in LocalChats,
         SendBegins(c) \/ ResolveBegins(c) \/ MutationBegins(c)
  PROVE  GateKept
  <1>1. PICK kind \in {"send", "generation", "mutation"} :
          CommandBegins(c, kind) /\ (kind = "send" => ~Generating(c))
    BY DEF SendBegins, ResolveBegins, MutationBegins
  <1> DEFINE cmd == [NoCommand EXCEPT !.kind = kind, !.step = "reading"]
  <1>2. /\ chatService = "running" /\ command[c] = NoCommand
        /\ command' = [command EXCEPT ![c] = cmd]
        /\ UNCHANGED <<ChatGate, gen, interrupt, ChatLife>>
    BY <1>1 DEF CommandBegins, Reserved
  <1>3. /\ cmd \in CommandType /\ cmd.step = "reading" /\ cmd.kind = kind /\ cmd.turn = 0
        /\ NoCommand.step = "none"
    BY DEF NoCommand, CommandType
  <1> HIDE DEF cmd
  <1>4. gen[c].step = "none" => gen[c] = NoGeneration
    BY DEF ChatInv, CommandInv, CommandFits
  <1>5. CommandFits(cmd, gen[c])
    BY <1>1, <1>3, <1>4 DEF CommandFits, Generating, NoGeneration
  <1> QED BY <1>2, <1>3, <1>5, CommandMoves DEF Holds, GateKept

LEMMA TurnsKeep ==
  ASSUME ChatInv, NEW c \in LocalChats, BeginsTurn(c) \/ Executes(c) \/ Executed(c)
  PROVE  GateKept
  <1>1. /\ command[c] \in CommandType /\ CommandFits(command[c], gen[c])
        /\ command \in [LocalChats -> CommandType]
        /\ manifest[c].turn \in Nat
    BY DEF ChatInv, CommandInv, GateTypes, FileTypes
  <1>2. LatestTurn + 1 \in Nat
    <2>1. IsFiniteSet(SentTurns)
      BY FS_Interval, SendsAssumption DEF SentTurns
    <2>2. IsFiniteSet({t \in SentTurns : \E d \in LocalChats : begun[d] >= t})
      BY <2>1, FS_Subset
    <2> QED BY <2>2, FS_CardinalityType DEF LatestTurn
  <1>3. UNCHANGED <<ChatGate, gen, interrupt, ChatLife>>
    BY DEF BeginsTurn, Executes, Executed, ChatGate, ChatHistory
  <1>4. CASE BeginsTurn(c)
    <2> DEFINE cmd == [command[c] EXCEPT !.step = "begun", !.turn = LatestTurn + 1]
    <2>1. command' = [command EXCEPT ![c] = cmd] /\ command[c].kind = "send"
          /\ command[c].step = "granted"
      BY <1>1, <1>4 DEF BeginsTurn
    <2>2. cmd \in CommandType /\ cmd.step = "begun" /\ cmd.kind = "send"
      BY <1>1, <1>2, <2>1 DEF CommandType, Holds
    <2> HIDE DEF cmd
    <2>3. CommandFits(cmd, gen[c])
      BY <1>1, <2>1, <2>2 DEF CommandFits
    <2> QED BY <1>3, <2>1, <2>2, <2>3, CommandMoves DEF Holds, GateKept
  <1>5. CASE Executes(c)
    <2> DEFINE cmd == [command[c] EXCEPT !.step = "executing", !.turn = manifest[c].turn]
    <2>1. command' = [command EXCEPT ![c] = cmd] /\ command[c].kind = "generation"
          /\ command[c].step = "granted"
      BY <1>1, <1>5 DEF Executes
    <2>2. cmd \in CommandType /\ cmd.step = "executing" /\ cmd.kind = "generation"
      BY <1>1, <2>1 DEF CommandType, Holds
    <2> HIDE DEF cmd
    <2>3. CommandFits(cmd, gen[c])
      BY <1>1, <2>1, <2>2 DEF CommandFits
    <2> QED BY <1>3, <2>1, <2>2, <2>3, CommandMoves DEF Holds, GateKept
  <1>6. CASE Executed(c)
    <2> DEFINE cmd == [command[c] EXCEPT !.step = "resuming"]
    <2>1. command' = [command EXCEPT ![c] = cmd] /\ command[c].step = "executing"
      BY <1>1, <1>6 DEF Executed
    <2>2. cmd \in CommandType /\ cmd.step = "resuming" /\ cmd.kind = command[c].kind
      BY <1>1, <2>1 DEF CommandType, Holds
    <2> HIDE DEF cmd
    <2>3. CommandFits(cmd, gen[c])
      BY <1>1, <2>1, <2>2 DEF CommandFits
    <2> QED BY <1>3, <2>1, <2>2, <2>3, CommandMoves DEF Holds, GateKept
  <1> QED BY <1>4, <1>5, <1>6

LEMMA AcquiresKeeps ==
  ASSUME ChatInv, NEW c \in LocalChats, Acquires(c)
  PROVE  GateKept
  <1>1. command[c].step = "reading" /\ UNCHANGED ChatLife
    BY DEF Acquires
  <1>2. /\ command[c] \in CommandType /\ CommandFits(command[c], gen[c])
        /\ GateTypes /\ GateInv
    BY DEF ChatInv, CommandInv, GateTypes
  <1>3. CASE CommandEnds(c)
    BY <1>1, <1>3, EndIsCounted DEF GateKept
  <1>4. ASSUME NEW step \in {"granted", "queued"}, command[c].kind # "mutation",
               command' = [command EXCEPT ![c].step = step], UNCHANGED <<gen, interrupt>>,
               slots' \in Nat
        PROVE  /\ GateTypes' /\ CommandInv' /\ PhaseInv'
               /\ command'[c].step = step
               /\ \A d \in LocalChats \ {c} : command'[d] = command[d]
    <2>1. /\ command' \in [LocalChats -> CommandType]
          /\ command'[c].step = step /\ command'[c].kind = command[c].kind
          /\ command'[c].turn = command[c].turn
          /\ \A d \in LocalChats \ {c} : command'[d] = command[d]
      BY <1>2, <1>4 DEF GateTypes, CommandType, Holds
    <2>2. CommandFits(command'[c], gen'[c])
      BY <1>1, <1>2, <1>4, <2>1 DEF CommandFits
    <2>3. /\ gen' \in [LocalChats -> GenerationType]
          /\ interrupt' \in [LocalChats -> {"none", "reserved", "waiting"}]
      BY <1>2, <1>4 DEF GateTypes
    <2>4. \A d \in LocalChats \ {c} : Moved(command[d], command'[d]) /\ gen'[d] = gen[d]
      BY <1>4, <2>1 DEF Moved
    <2>5. gen'[c].step # "none" => (gen[c].step # "none" \/ command[c].step # "none")
      BY <1>1
    <2>6. command[c].step # "none"
      BY <1>1
    <2> QED BY <1>1, <1>4, <2>1, <2>2, <2>3, <2>4, <2>5, <2>6, ChatStep
  <1>5. CASE /\ slots < Concurrency /\ slots' = slots + 1 /\ command[c].kind # "mutation"
             /\ command' = [command EXCEPT ![c].step = "granted"]
             /\ UNCHANGED <<queue, gen, interrupt>>
    <2>1. slots' \in Nat /\ slots' <= Concurrency
      BY <1>2, <1>5, GateAssumption DEF GateTypes
    <2>2. /\ GateTypes' /\ CommandInv' /\ PhaseInv'
          /\ command'[c].step = "granted"
          /\ \A d \in LocalChats \ {c} : command'[d] = command[d]
      BY <1>4, <1>5, <2>1
    <2>3. HeldIn(command') = HeldIn(command) \cup {c} /\ c \notin HeldIn(command)
      BY <1>1, <2>2 DEF HeldIn, Holds
    <2>4. IsFiniteSet(HeldIn(command)) /\ Cardinality(GeneratingIn(gen)) \in Nat
      BY ChatsAreFinite DEF HeldIn, GeneratingIn
    <2>5. /\ Cardinality(HeldIn(command')) = Cardinality(HeldIn(command)) + 1
          /\ Cardinality(HeldIn(command)) \in Nat
      BY <2>3, <2>4, Joins
    <2>6. QueueOf(queue, command')
      <3>1. \A d \in LocalChats : (command[d].step = "queued") <=> (command'[d].step = "queued")
        BY <1>1, <2>2
      <3>2. QueueOf(queue, command)
        BY <1>2 DEF GateInv
      <3> QED BY <3>1, <3>2, QueueStays
    <2>7. queue = <<>>
      BY <1>2, <1>5, GateAssumption DEF GateInv, GateTypes
    <2>8. GateInv'
      BY <1>2, <1>5, <2>1, <2>4, <2>5, <2>6, <2>7 DEF GateInv
    <2> QED BY <2>2, <2>8 DEF GateKept
  <1>6. CASE /\ ~(slots < Concurrency) /\ queue' = Append(queue, c) /\ command[c].kind # "mutation"
             /\ command' = [command EXCEPT ![c].step = "queued"]
             /\ UNCHANGED <<slots, gen, interrupt>>
    <2>1. slots' \in Nat /\ slots = Concurrency
      BY <1>2, <1>6, GateAssumption DEF GateTypes, GateInv
    <2>2. /\ GateTypes' /\ CommandInv' /\ PhaseInv'
          /\ command'[c].step = "queued"
          /\ \A d \in LocalChats \ {c} : command'[d] = command[d]
      BY <1>4, <1>6, <2>1
    <2>3. HeldIn(command') = HeldIn(command)
      BY <1>1, <2>2 DEF HeldIn, Holds
    <2>4. QueueOf(queue', command')
      <3>1. QueueOf(queue, command)
        BY <1>2 DEF GateInv
      <3>2. QueueOf(Append(queue, c), command')
        BY <1>1, <2>2, <3>1, QueueGrows
      <3> QED BY <1>6, <3>2
    <2>5. GateInv'
      BY <1>2, <1>6, <2>1, <2>3, <2>4 DEF GateInv
    <2> QED BY <2>2, <2>5 DEF GateKept
  <1> QED BY <1>3, <1>5, <1>6 DEF Acquires

LEMMA CommandsEndKeep ==
  ASSUME ChatInv, NEW c \in LocalChats, MutationEnds(c) \/ GivesUp(c) \/ CommandFails(c)
  PROVE  GateKept
  <1>1. CommandFits(command[c], gen[c]) /\ UNCHANGED ChatLife
    BY DEF ChatInv, CommandInv, MutationEnds, GivesUp, CommandFails
  <1>2. CASE MutationEnds(c)
    <2>1. command[c].step = "reading" /\ CommandEnds(c)
      BY <1>1, <1>2 DEF MutationEnds, CommandFits
    <2> QED BY <1>1, <2>1, EndIsCounted DEF GateKept
  <1>3. CASE GivesUp(c) \/ CommandFails(c)
    <2>1. command[c].step \in Holds /\ CommandEndsAndReleases(c)
      BY <1>3 DEF GivesUp, CommandFails, Holds
    <2> QED BY <1>1, <2>1, EndAndReleaseIsCounted DEF GateKept
  <1> QED BY <1>2, <1>3

(* The generation that a command starts.                                   *)
Started(c) ==
  IF command[c].step = "begun"
  THEN [NoGeneration EXCEPT !.step = "running", !.turn = command[c].turn]
  ELSE [NoGeneration EXCEPT !.step = "running", !.turn = command[c].turn,
                            !.text = manifest[c].text, !.resumed = TRUE]

LEMMA StartedIsTyped ==
  ASSUME ChatInv, NEW c \in LocalChats
  PROVE  /\ Started(c) \in GenerationType /\ Started(c).step = "running"
         /\ Started(c).turn = command[c].turn /\ Started(c).caught = FALSE
  <1>1. command[c].turn \in Nat /\ manifest[c].text \in BOOLEAN
    BY DEF ChatInv, FileTypes, GateTypes, CommandType
  <1> QED BY <1>1 DEF Started, NoGeneration, GenerationType

LEMMA StartsShape ==
  ASSUME ChatInv, NEW c \in LocalChats, Starts(c) \/ (Resumes(c) /\ ~Generating(c))
  PROVE  /\ command[c].step \in {"begun", "resuming"} /\ gen[c].step = "none"
         /\ StartsGeneration(c, Started(c))
         /\ UNCHANGED <<ChatFiles, ChatHistory, ChatLife, writeFailures>>
  <1>1. CommandFits(command[c], gen[c])
    BY DEF ChatInv, CommandInv
  <1> QED BY <1>1 DEF Starts, Resumes, Started, CommandFits, Generating, NoGeneration

LEMMA StartsKeep ==
  ASSUME ChatInv, NEW c \in LocalChats, Starts(c) \/ Resumes(c)
  PROVE  GateKept
  <1>1. CASE Starts(c) \/ (Resumes(c) /\ ~Generating(c))
    <2>1. /\ command[c].step \in {"begun", "resuming"} /\ gen[c].step = "none"
          /\ StartsGeneration(c, Started(c)) /\ UNCHANGED ChatLife
      BY <1>1, StartsShape
    <2>2. Started(c) \in GenerationType /\ Started(c).step = "running"
      BY StartedIsTyped
    <2> QED BY <2>1, <2>2, StartIsCounted DEF GateKept, Holds
  <1>2. CASE Resumes(c) /\ Generating(c)
    <2>1. command[c].step = "resuming" /\ CommandEndsAndReleases(c) /\ UNCHANGED ChatLife
      BY <1>2 DEF Resumes
    <2> QED BY <2>1, EndAndReleaseIsCounted DEF GateKept, Holds
  <1> QED BY <1>1, <1>2

(* Throws either goes on to write the end, or is the end.                  *)
LEMMA ThrowsShape ==
  ASSUME ChatInv, NEW c \in LocalChats, Throws(c), gen[c].step # "none"
  PROVE  \/ gen[c].caught /\ GenerationEnds(c)
         \/ \E step \in {"saving", "ending"} :
              /\ ~gen[c].caught
              /\ gen' = [gen EXCEPT ![c] = [gen[c] EXCEPT !.caught = TRUE, !.step = step]]
              /\ UNCHANGED <<ChatGate, command, interrupt>>
  <1>1. gen \in [LocalChats -> GenerationType]
    BY DEF ChatInv, GateTypes
  <1>2. CASE gen[c].caught
    BY <1>2 DEF Throws
  <1>3. CASE ~gen[c].caught
    <2> DEFINE step == IF gen[c].text /\ ~gen[c].resumed THEN "saving" ELSE "ending"
    <2>1. /\ gen' = [gen EXCEPT ![c].caught = TRUE, ![c].step = step]
          /\ UNCHANGED <<ChatGate, command, interrupt>>
      BY <1>3 DEF Throws
    <2>2. step \in {"saving", "ending"}
      OBVIOUS
    <2> HIDE DEF step
    <2>3. gen' = [gen EXCEPT ![c] = [gen[c] EXCEPT !.caught = TRUE, !.step = step]]
      BY <1>1, <2>1, <2>2 DEF GenerationType
    <2> QED BY <1>3, <2>1, <2>2, <2>3
  <1> QED BY <1>2, <1>3

(* What goes on in a generation: its steps, and what they make of it.      *)
GoesOn(c, g) ==
  /\ gen' = [gen EXCEPT ![c] = g]
  /\ g \in GenerationType /\ g.step # "none" /\ gen[c].step # "none"
  /\ g.turn = gen[c].turn
  /\ UNCHANGED <<ChatGate, command, interrupt, ChatLife>>

LEMMA GenerationShape ==
  ASSUME ChatInv, NEW c \in LocalChats,
         \/ Says(c) \/ Checkpoints(c) \/ Answers(c) \/ Breaks(c) \/ Asks(c)
         \/ GenerationNext(c) \/ WriteFailsIn(c)
  PROVE  \/ gen[c].step # "none" /\ GenerationEnds(c) /\ UNCHANGED ChatLife
         \/ \E g \in GenerationType : GoesOn(c, g)
  <1>1. /\ gen[c] \in GenerationType /\ gen \in [LocalChats -> GenerationType]
        /\ UNCHANGED ChatLife /\ gen[c].step # "none"
    BY DEF ChatInv, GateTypes, Says, Checkpoints, Answers, Breaks, Asks, GenerationNext,
           Writes, Unlinks, Finishes, WriteFailsIn, AfterWrite
  <1>2. CASE Says(c)
    <2>1. /\ gen' = [gen EXCEPT ![c] = [gen[c] EXCEPT !.text = TRUE]]
          /\ UNCHANGED <<ChatGate, command, interrupt>>
      BY <1>1, <1>2 DEF Says, ChatGate
    <2>2. /\ [gen[c] EXCEPT !.text = TRUE] \in GenerationType
          /\ [gen[c] EXCEPT !.text = TRUE].step = gen[c].step
          /\ [gen[c] EXCEPT !.text = TRUE].turn = gen[c].turn
      BY <1>1 DEF GenerationType
    <2> QED BY <1>1, <2>1, <2>2 DEF GoesOn
  <1>3. CASE Checkpoints(c)
    <2>1. gen' = [gen EXCEPT ![c] = gen[c]] /\ UNCHANGED <<ChatGate, command, interrupt>>
      BY <1>1, <1>3 DEF Checkpoints, ChatGate
    <2> QED BY <1>1, <2>1 DEF GoesOn
  <1>4. ASSUME NEW step \in {"pausing", "saving", "unlinking", "ending", "clearing"},
               gen' = [gen EXCEPT ![c].step = step], UNCHANGED <<ChatGate, command, interrupt>>
        PROVE  \E g \in GenerationType : GoesOn(c, g)
    <2>1. gen' = [gen EXCEPT ![c] = [gen[c] EXCEPT !.step = step]]
      BY <1>1, <1>4
    <2>2. /\ [gen[c] EXCEPT !.step = step] \in GenerationType
          /\ [gen[c] EXCEPT !.step = step].step = step
          /\ [gen[c] EXCEPT !.step = step].turn = gen[c].turn
      BY <1>1 DEF GenerationType
    <2> QED BY <1>1, <1>4, <2>1, <2>2 DEF GoesOn
  <1>5. CASE Answers(c)
    <2>1. PICK step \in {"saving", "ending"} : gen' = [gen EXCEPT ![c].step = step]
      BY <1>5 DEF Answers
    <2>2. UNCHANGED <<ChatGate, command, interrupt>>
      BY <1>5 DEF Answers, ChatGate
    <2> QED BY <1>4, <2>1, <2>2
  <1>6. ASSUME Throws(c)
        PROVE  GenerationEnds(c) \/ \E g \in GenerationType : GoesOn(c, g)
    <2>1. CASE gen[c].caught /\ GenerationEnds(c)
      BY <2>1
    <2>2. ASSUME NEW step \in {"saving", "ending"},
                 gen' = [gen EXCEPT ![c] = [gen[c] EXCEPT !.caught = TRUE, !.step = step]],
                 UNCHANGED <<ChatGate, command, interrupt>>
          PROVE  \E g \in GenerationType : GoesOn(c, g)
      <3> DEFINE g == [gen[c] EXCEPT !.caught = TRUE, !.step = step]
      <3>1. g \in GenerationType /\ g.step = step /\ g.turn = gen[c].turn
        BY <1>1 DEF GenerationType
      <3> QED BY <1>1, <2>2, <3>1 DEF GoesOn
    <2> QED BY <1>1, <1>6, <2>1, <2>2, ThrowsShape
  <1>7. CASE Breaks(c) \/ WriteFailsIn(c)
    BY <1>1, <1>6, <1>7 DEF Breaks, WriteFailsIn
  <1>8. CASE Asks(c)
    <2>1. CASE GenerationEnds(c)
      BY <1>1, <2>1
    <2>2. CASE gen' = [gen EXCEPT ![c].step = "pausing"] /\ UNCHANGED <<ChatGate, command, interrupt>>
      BY <1>4, <2>2
    <2> QED BY <1>8, <2>1, <2>2 DEF Asks
  <1>9. CASE Writes(c)
    <2>1. PICK step \in {"unlinking", "clearing"} : gen' = [gen EXCEPT ![c].step = step]
      <3>1. /\ gen[c].step \in {"saving", "ending"}
            /\ gen' = [gen EXCEPT ![c].step = AfterWrite[@]]
        BY <1>9 DEF Writes, AfterWrite
      <3>2. AfterWrite["saving"] = "unlinking" /\ AfterWrite["ending"] = "clearing"
        BY DEF AfterWrite
      <3>3. gen' = [gen EXCEPT ![c].step = AfterWrite[gen[c].step]]
        BY <3>1
      <3> QED BY <3>1, <3>2, <3>3
    <2>2. UNCHANGED <<ChatGate, command, interrupt>>
      BY <1>9 DEF Writes, ChatGate
    <2> QED BY <1>4, <2>1, <2>2
  <1>10. CASE Unlinks(c)
    <2>1. gen' = [gen EXCEPT ![c].step = "ending"] /\ UNCHANGED <<ChatGate, command, interrupt>>
      BY <1>10 DEF Unlinks, ChatGate
    <2> QED BY <1>4, <2>1
  <1>11. CASE Finishes(c)
    BY <1>1, <1>11 DEF Finishes
  <1> QED BY <1>2, <1>3, <1>5, <1>7, <1>8, <1>9, <1>10, <1>11 DEF GenerationNext

LEMMA GenerationKeeps ==
  ASSUME ChatInv, NEW c \in LocalChats,
         \/ Says(c) \/ Checkpoints(c) \/ Answers(c) \/ Breaks(c) \/ Asks(c)
         \/ GenerationNext(c) \/ WriteFailsIn(c)
  PROVE  GateKept
  <1>1. CASE gen[c].step # "none" /\ GenerationEnds(c) /\ UNCHANGED ChatLife
    BY <1>1, GenerationEndIsCounted DEF GateKept
  <1>2. ASSUME NEW g \in GenerationType, GoesOn(c, g)
        PROVE  GateKept
    BY <1>2, GenerationMoves DEF GoesOn, GateKept
  <1> QED BY <1>1, <1>2, GenerationShape

LEMMA InterruptsKeeps ==
  ASSUME ChatInv, NEW c \in LocalChats, Interrupts(c)
  PROVE  GateKept
  <1>1. /\ GateTypes /\ GateInv /\ CommandInv /\ PhaseInv /\ chatService = "running"
        /\ UNCHANGED ChatLife /\ slots' = slots
        /\ command[c] \in CommandType /\ gen[c] \in GenerationType
        /\ CommandFits(command[c], gen[c])
    BY DEF ChatInv, Interrupts, GateTypes, CommandInv
  <1>2. CASE Reserved(c)
    <2> DEFINE cmd == IF Starting(c) THEN Cancelled(command[c]) ELSE command[c]
    <2>1. /\ command' = [command EXCEPT ![c] = cmd]
          /\ queue' = IF command[c].step = "queued" THEN Withdrawn(c) ELSE queue
          /\ interrupt' = [interrupt EXCEPT ![c] = "reserved"] /\ gen' = gen
      BY <1>1, <1>2 DEF Interrupts, GateTypes
    <2>2. CASE command[c].step = "queued" /\ Starting(c)
      <3>1. /\ cmd \in CommandType /\ cmd.step = "reading" /\ cmd.kind = command[c].kind
            /\ cmd.turn = command[c].turn
        BY <1>1, <2>2 DEF Cancelled, CommandType, Holds
      <3> HIDE DEF cmd
      <3>2. /\ command' \in [LocalChats -> CommandType] /\ command'[c] = cmd
            /\ \A d \in LocalChats \ {c} : command'[d] = command[d]
        BY <1>1, <2>1, <3>1 DEF GateTypes
      <3>3. CommandFits(command'[c], gen'[c])
        BY <1>1, <2>1, <2>2, <3>1, <3>2 DEF CommandFits
      <3>4. GateTypes' /\ CommandInv' /\ PhaseInv'
        <4>1. /\ slots' \in Nat /\ gen' \in [LocalChats -> GenerationType]
              /\ interrupt' \in [LocalChats -> {"none", "reserved", "waiting"}]
          BY <1>1, <2>1 DEF GateTypes
        <4>2. \A d \in LocalChats \ {c} : Moved(command[d], command'[d]) /\ gen'[d] = gen[d]
          BY <2>1, <3>2 DEF Moved
        <4> QED BY <1>1, <2>1, <2>2, <3>2, <3>3, <4>1, <4>2, ChatStep
      <3>5. QueueOf(queue', command') /\ (queue' # <<>> => queue # <<>>)
        <4>1. /\ queue' = RemoveAt(queue, CHOOSE i \in DOMAIN queue : queue[i] = c)
              /\ QueueOf(queue, command) /\ command'[c].step # "queued"
          BY <1>1, <2>1, <2>2, <3>1, <3>2 DEF GateInv, Withdrawn
        <4>2. \A d \in LocalChats \ {c} :
                (command[d].step = "queued") <=> (command'[d].step = "queued")
          BY <3>2
        <4>3. command[c].step = "queued"
          BY <2>2
        <4> QED BY ONLY c \in LocalChats, <4>1, <4>2, <4>3, QueueShrinks
      <3>6. HeldIn(command') = HeldIn(command)
        BY <2>2, <3>1, <3>2 DEF HeldIn, Holds
      <3>7. GateInv'
        BY <1>1, <2>1, <3>5, <3>6 DEF GateInv
      <3> QED BY <3>4, <3>7 DEF GateKept
    <2>3. CASE ~(command[c].step = "queued" /\ Starting(c))
      <3>1. command[c].step # "none"
        BY <1>1, <1>2 DEF CommandFits, Reserved
      <3>2. command[c].step # "queued"
        BY <1>1, <2>3 DEF Starting, CommandType, CommandFits
      <3>3. /\ cmd \in CommandType /\ cmd.step = command[c].step /\ cmd.kind = command[c].kind
            /\ cmd.turn = command[c].turn
        BY <1>1, <3>2 DEF Cancelled, CommandType, Holds
      <3> HIDE DEF cmd
      <3>4. /\ command' \in [LocalChats -> CommandType] /\ command'[c] = cmd
            /\ \A d \in LocalChats \ {c} : command'[d] = command[d]
        BY <1>1, <2>1, <3>3 DEF GateTypes
      <3>5. CommandFits(command'[c], gen'[c])
        BY <1>1, <2>1, <3>1, <3>3, <3>4 DEF CommandFits
      <3>6. GateTypes' /\ CommandInv' /\ PhaseInv'
        <4>1. /\ slots' \in Nat /\ gen' \in [LocalChats -> GenerationType]
              /\ interrupt' \in [LocalChats -> {"none", "reserved", "waiting"}]
          BY <1>1, <2>1 DEF GateTypes
        <4>2. \A d \in LocalChats \ {c} : Moved(command[d], command'[d]) /\ gen'[d] = gen[d]
          BY <2>1, <3>4 DEF Moved
        <4>3. gen'[c].step # "none" => (gen[c].step # "none" \/ command[c].step # "none")
          BY <3>1
        <4> QED BY <1>1, <2>1, <3>1, <3>4, <3>5, <4>1, <4>2, <4>3, ChatStep
      <3>7. QueueOf(queue', command')
        <4>1. \A d \in LocalChats : (command[d].step = "queued") <=> (command'[d].step = "queued")
          BY <3>2, <3>3, <3>4
        <4>2. QueueOf(queue, command)
          BY <1>1 DEF GateInv
        <4>3. QueueOf(queue, command')
          BY ONLY <4>1, <4>2, QueueStays
        <4>4. queue' = queue
          BY <2>1, <3>2
        <4> QED BY <4>3, <4>4
      <3>8. HeldIn(command') = HeldIn(command) /\ queue' = queue
        BY <2>1, <3>2, <3>3, <3>4 DEF HeldIn
      <3>9. GateInv'
        BY <1>1, <2>1, <3>7, <3>8 DEF GateInv
      <3> QED BY <3>6, <3>9 DEF GateKept
    <2> QED BY <2>2, <2>3
  <1>3. CASE ~Reserved(c)
    <2>1. /\ gen' = [gen EXCEPT ![c].aborted = TRUE] /\ gen[c] # NoGeneration
          /\ interrupt' = [interrupt EXCEPT ![c] = "waiting"] /\ UNCHANGED <<command, queue>>
      BY <1>3 DEF Interrupts, Generating
    <2> DEFINE g == [gen[c] EXCEPT !.aborted = TRUE]
    <2>2. g \in GenerationType /\ g.step = gen[c].step /\ gen[c].step # "none"
      BY <1>1, <2>1 DEF GenerationType, CommandFits
    <2>3. gen' = [gen EXCEPT ![c] = g]
      BY <1>1, <2>1 DEF GateTypes
    <2> HIDE DEF g
    <2>4. /\ gen' \in [LocalChats -> GenerationType] /\ gen'[c] = g
          /\ \A d \in LocalChats \ {c} : gen'[d] = gen[d]
      BY <1>1, <2>2, <2>3 DEF GateTypes
    <2>5. GateTypes' /\ CommandInv' /\ PhaseInv'
      <3>1. /\ slots' \in Nat /\ command' \in [LocalChats -> CommandType]
            /\ interrupt' \in [LocalChats -> {"none", "reserved", "waiting"}]
        BY <1>1, <2>1 DEF GateTypes
      <3>2. \A d \in LocalChats \ {c} : Moved(command[d], command'[d]) /\ gen'[d] = gen[d]
        BY <2>1, <2>4 DEF Moved
      <3>3. CommandFits(command'[c], gen'[c])
        BY <1>1, <2>1, <2>2, <2>4 DEF CommandFits
      <3>4. command'[c].step # "none" => command[c].step # "none"
        BY <2>1
      <3> QED BY <1>1, <2>2, <2>4, <3>1, <3>2, <3>3, <3>4, ChatStep
    <2>6. GeneratingIn(gen') = GeneratingIn(gen) /\ command' = command /\ queue' = queue
      BY <2>1, <2>2, <2>4 DEF GeneratingIn
    <2>7. GateInv'
      BY <1>1, <2>6 DEF GateInv
    <2> QED BY <2>5, <2>7 DEF GateKept
  <1> QED BY <1>2, <1>3

(* close(): every command that waits leaves the queue, and what runs is    *)
(* aborted.                                                                *)
LEMMA AbortedIsAlike ==
  ASSUME GateTypes, CommandInv
  PROVE  /\ Aborted(gen) \in [LocalChats -> GenerationType]
         /\ \A d \in LocalChats : Alike(Aborted(gen)[d], gen[d])
  <1> SUFFICES ASSUME NEW d \in LocalChats
               PROVE  Aborted(gen)[d] \in GenerationType /\ Alike(Aborted(gen)[d], gen[d])
    BY DEF Aborted
  <1>1. gen[d] \in GenerationType /\ (gen[d].step = "none" => gen[d] = NoGeneration)
    BY DEF GateTypes, CommandInv, CommandFits
  <1>2. CASE gen[d] = NoGeneration
    BY <1>1, <1>2 DEF Aborted, Alike
  <1>3. CASE gen[d] # NoGeneration
    <2>1. Aborted(gen)[d] = [gen[d] EXCEPT !.aborted = TRUE]
      BY <1>3 DEF Aborted
    <2> QED BY <1>1, <1>3, <2>1 DEF GenerationType, Alike
  <1> QED BY <1>2, <1>3

LEMMA CloseKeeps ==
  ASSUME ChatInv, LocalCloseBegins
  PROVE  GateKept
  <1>1. /\ GateTypes /\ GateInv /\ CommandInv /\ PhaseInv /\ chatService = "running"
        /\ chatService' = "closing" /\ queue' = <<>> /\ gen' = Aborted(gen)
        /\ awaited' \subseteq LocalChats
        /\ command' = [c \in LocalChats |-> IF Reserved(c) THEN Cancelled(command[c]) ELSE NoCommand]
        /\ slots' = slots /\ interrupt' = interrupt /\ recovery' = recovery
    BY DEF ChatInv, LocalCloseBegins
  <1>2. /\ gen' \in [LocalChats -> GenerationType]
        /\ \A d \in LocalChats : Alike(gen'[d], gen[d])
    BY <1>1, AbortedIsAlike
  <1>3. ASSUME NEW d \in LocalChats
        PROVE  /\ command'[d] \in CommandType /\ CommandFits(command'[d], gen'[d])
               /\ command'[d].step # "queued"
               /\ command'[d].step \in Holds <=> command[d].step \in Holds
    <2>1. command[d] \in CommandType /\ CommandFits(command[d], gen[d]) /\ Alike(gen'[d], gen[d])
      BY <1>1, <1>2 DEF GateTypes, CommandInv
    <2>2. CASE command[d] = NoCommand
      <3>1. command'[d] = NoCommand /\ NoCommand \in CommandType
            /\ NoCommand.step = "none" /\ NoCommand.kind = "none"
        BY <1>1, <2>2 DEF Reserved, NoCommand, CommandType
      <3> QED BY <2>1, <2>2, <3>1 DEF CommandFits, Alike, Holds
    <2>3. CASE command[d] # NoCommand
      <3>1. command'[d] = Cancelled(command[d])
        BY <1>1, <2>3 DEF Reserved
      <3>2. /\ command'[d] \in CommandType /\ command'[d].kind = command[d].kind
            /\ command'[d].turn = command[d].turn
            /\ command'[d].step = IF command[d].step = "queued" THEN "reading" ELSE command[d].step
        BY <2>1, <3>1 DEF Cancelled, CommandType
      <3>3. command[d].step # "none"
        BY <2>1, <2>3 DEF CommandFits
      <3>4. CommandFits(command'[d], gen'[d])
        BY <2>1, <3>2, <3>3 DEF CommandFits, Alike
      <3> QED BY <3>2, <3>4 DEF Holds
    <2> QED BY <2>2, <2>3
  <1>4. command' \in [LocalChats -> CommandType]
    BY <1>1, <1>3
  <1>5. GateTypes' /\ CommandInv'
    BY <1>1, <1>2, <1>3, <1>4 DEF GateTypes, CommandInv
  <1>6. PhaseInv'
    BY <1>1 DEF PhaseInv
  <1>7. HeldIn(command') = HeldIn(command) /\ GeneratingIn(gen') = GeneratingIn(gen)
    BY <1>2, <1>3 DEF HeldIn, GeneratingIn, Alike
  <1>8. QueueOf(queue', command')
    BY <1>1, <1>3 DEF QueueOf
  <1>9. GateInv'
    BY <1>1, <1>7, <1>8 DEF GateInv
  <1> QED BY <1>5, <1>6, <1>9 DEF GateKept

LEMMA ReservationsEndKeeps ==
  ASSUME ChatInv, ReservationsEnd
  PROVE  GateKept
  <1>1. /\ GateTypes /\ GateInv /\ CommandInv /\ PhaseInv
        /\ \A c \in LocalChats : ~Reserved(c)
        /\ chatService = "closing" /\ chatService' = "draining" /\ gen' = Aborted(gen)
        /\ awaited' = awaited \cup {c \in LocalChats : Generating(c)}
        /\ command' = command /\ slots' = slots /\ queue' = queue
        /\ interrupt' = interrupt /\ recovery' = recovery
    BY DEF ChatInv, ReservationsEnd, ChatGate
  <1>2. /\ gen' \in [LocalChats -> GenerationType]
        /\ \A d \in LocalChats : Alike(gen'[d], gen[d])
    BY <1>1, AbortedIsAlike
  <1>3. NoCommand.step = "none" /\ NoGeneration.step = "none"
    BY DEF NoCommand, NoGeneration
  <1>4. GateTypes'
    BY <1>1, <1>2 DEF GateTypes
  <1>5. CommandInv'
    BY <1>1, <1>2 DEF CommandInv, CommandFits, Alike
  <1>6. GeneratingIn(gen') = GeneratingIn(gen)
    BY <1>2 DEF GeneratingIn, Alike
  <1>7. GateInv'
    BY <1>1, <1>6 DEF GateInv
  <1>8. PhaseInv'
    BY <1>1, <1>2, <1>3 DEF PhaseInv, Reserved, Generating, Alike
  <1> QED BY <1>4, <1>5, <1>7, <1>8 DEF GateKept

LEMMA ServiceKeeps ==
  ASSUME ChatInv, LocalCloseEnds \/ Recovered
  PROVE  GateKept
  <1>1. /\ GateTypes /\ GateInv /\ CommandInv /\ PhaseInv
        /\ gen' = gen /\ awaited' = awaited /\ recovery' = recovery
        /\ command' = command /\ slots' = slots /\ queue' = queue /\ interrupt' = interrupt
    BY DEF ChatInv, LocalCloseEnds, Recovered, ChatGate
  <1>2. GateTypes' /\ CommandInv' /\ GateInv'
    BY <1>1 DEF GateTypes, CommandInv, GateInv, LocalCloseEnds, Recovered
  <1>3. NoGeneration.step = "none"
    BY DEF NoGeneration
  <1>4. PhaseInv'
    BY <1>1, <1>3 DEF PhaseInv, LocalCloseEnds, Recovered, Generating
  <1> QED BY <1>2, <1>4 DEF GateKept

LEMMA NoneIsCounted ==
  ASSUME command = [c \in LocalChats |-> NoCommand],
         gen = [c \in LocalChats |-> NoGeneration], slots = 0, queue = <<>>,
         interrupt = [c \in LocalChats |-> "none"],
         chatService \in {"recovering", "running"}, awaited = {},
         recovery \in [LocalChats -> {"checkpoint", "done"}],
         chatService # "recovering" => recovery = [c \in LocalChats |-> "done"]
  PROVE  GateTypes /\ GateInv /\ CommandInv /\ PhaseInv
  <1>1. /\ NoCommand \in CommandType /\ NoCommand.step = "none" /\ NoCommand.kind = "none"
        /\ NoGeneration \in GenerationType /\ NoGeneration.step = "none"
    BY DEF NoCommand, NoGeneration, CommandType, GenerationType
  <1>2. GateTypes
    BY <1>1 DEF GateTypes
  <1>3. CommandInv
    BY <1>1 DEF CommandInv, CommandFits
  <1>4. PhaseInv
    BY <1>1 DEF PhaseInv
  <1>5. HeldIn(command) = {} /\ GeneratingIn(gen) = {}
    BY <1>1 DEF HeldIn, GeneratingIn, Holds
  <1>6. Cardinality({}) = 0
    BY FS_EmptySet
  <1>7. QueueOf(queue, command)
    BY <1>1 DEF QueueOf
  <1>8. slots <= Concurrency /\ slots = Cardinality(GeneratingIn(gen)) + Cardinality(HeldIn(command))
    <2>1. Cardinality(GeneratingIn(gen)) = 0 /\ Cardinality(HeldIn(command)) = 0
      BY ONLY <1>5, <1>6
    <2>2. 0 <= Concurrency
      BY GateAssumption
    <2> QED BY ONLY <2>1, <2>2, slots = 0
  <1>9. GateInv
    BY <1>7, <1>8 DEF GateInv
  <1> QED BY <1>2, <1>3, <1>4, <1>9

LEMMA RestartsKeeps ==
  ASSUME ChatInv, LocalRestarts
  PROVE  GateKept
  <1>1. /\ chatService' = "recovering" /\ awaited' = {}
        /\ recovery' = [c \in LocalChats |-> "checkpoint"]
        /\ command' = [c \in LocalChats |-> NoCommand]
        /\ gen' = [c \in LocalChats |-> NoGeneration]
        /\ interrupt' = [c \in LocalChats |-> "none"]
        /\ slots' = 0 /\ queue' = <<>>
    BY DEF LocalRestarts
  <1>2. /\ NoCommand \in CommandType /\ NoCommand.step = "none" /\ NoCommand.kind = "none"
        /\ NoGeneration \in GenerationType /\ NoGeneration.step = "none"
    BY DEF NoCommand, NoGeneration, CommandType, GenerationType
  <1>3. GateTypes'
    BY <1>1, <1>2 DEF GateTypes
  <1>4. CommandInv' /\ PhaseInv'
    BY <1>1, <1>2 DEF CommandInv, CommandFits, PhaseInv
  <1>5. HeldIn(command') = {} /\ GeneratingIn(gen') = {}
    BY <1>1, <1>2 DEF HeldIn, GeneratingIn, Holds
  <1>6. Cardinality({}) = 0
    BY FS_EmptySet
  <1>7. QueueOf(queue', command')
    BY <1>1, <1>2 DEF QueueOf
  <1>8. /\ slots' <= Concurrency
        /\ slots' = Cardinality(GeneratingIn(gen')) + Cardinality(HeldIn(command'))
    <2>1. Cardinality(GeneratingIn(gen')) = 0 /\ Cardinality(HeldIn(command')) = 0
      BY ONLY <1>5, <1>6
    <2>2. 0 <= Concurrency /\ slots' = 0
      BY <1>1, GateAssumption
    <2> QED BY ONLY <2>1, <2>2
  <1>9. GateInv'
    BY <1>1, <1>7, <1>8 DEF GateInv
  <1> QED BY <1>3, <1>4, <1>9 DEF GateKept

LEMMA RecoveryKeeps ==
  ASSUME ChatInv, NEW c \in LocalChats,
         RecoversText(c) \/ RecoveryUnlinks(c) \/ RecoversTurn(c) \/ RecoveryClears(c)
  PROVE  GateKept
  <1>1. /\ GateTypes /\ GateInv /\ CommandInv /\ PhaseInv
        /\ gen' = gen /\ awaited' = awaited /\ chatService' = chatService
        /\ command' = command /\ slots' = slots /\ queue' = queue /\ interrupt' = interrupt
        /\ recovery[c] # "done"
    BY DEF ChatInv, RecoversText, RecoveryUnlinks, RecoversTurn, RecoveryClears, ChatGate
  <1>2. PICK to \in {"checkpoint", "unlink", "turn", "clear", "done"} :
          recovery' = [recovery EXCEPT ![c] = to]
    BY DEF RecoversText, RecoveryUnlinks, RecoversTurn, RecoveryClears
  <1>3. /\ recovery' \in [LocalChats -> {"checkpoint", "unlink", "turn", "clear", "done"}]
        /\ \A d \in LocalChats : recovery'[d] # "done" => recovery[d] # "done"
    BY <1>1, <1>2 DEF GateTypes
  <1>4. GateTypes' /\ CommandInv' /\ GateInv'
    BY <1>1, <1>3 DEF GateTypes, CommandInv, GateInv
  <1>5. PhaseInv'
    BY <1>1, <1>3 DEF PhaseInv
  <1> QED BY <1>4, <1>5 DEF GateKept

(* The files.                                                              *)
LEMMA LatestIsNatural == LatestTurn \in Nat
  <1>1. IsFiniteSet(SentTurns)
    BY FS_Interval, SendsAssumption DEF SentTurns
  <1>2. IsFiniteSet({t \in SentTurns : \E d \in LocalChats : begun[d] >= t})
    BY <1>1, FS_Subset
  <1> QED BY <1>2, FS_CardinalityType DEF LatestTurn

LEMMA EndIsTyped ==
  ASSUME FileTypes, NEW c \in LocalChats, EndWritten(c)
  PROVE  /\ manifest' \in [LocalChats -> [turn : Nat, pending : BOOLEAN, text : BOOLEAN]]
         /\ stored' \in [SentTurns -> Nat] /\ ended' \in [SentTurns -> Nat]
  <1>1. /\ manifest \in [LocalChats -> [turn : Nat, pending : BOOLEAN, text : BOOLEAN]]
        /\ stored \in [SentTurns -> Nat] /\ ended \in [SentTurns -> Nat]
    BY DEF FileTypes
  <1>2. stored' \in [SentTurns -> Nat]
    <2> DEFINE v == IF gen[c].step = "saving" THEN stored[gen[c].turn] + 1 ELSE stored[gen[c].turn]
    <2>1. stored' = [stored EXCEPT ![gen[c].turn] = v]
      BY DEF EndWritten, AnswerStored
    <2>2. gen[c].turn \in SentTurns => v \in Nat
      BY <1>1
    <2> HIDE DEF v
    <2> QED BY <1>1, <2>1, <2>2
  <1>3. ended' \in [SentTurns -> Nat]
    <2> DEFINE v == IF gen[c].step = "ending" THEN ended[gen[c].turn] + 1 ELSE ended[gen[c].turn]
    <2>1. ended' = [ended EXCEPT ![gen[c].turn] = v]
      BY DEF EndWritten, TerminalStored
    <2>2. gen[c].turn \in SentTurns => v \in Nat
      BY <1>1
    <2> HIDE DEF v
    <2> QED BY <1>1, <2>1, <2>2
  <1>4. manifest' \in [LocalChats -> [turn : Nat, pending : BOOLEAN, text : BOOLEAN]]
    <2> DEFINE m == IF gen[c].step = "clearing" /\ manifest[c].turn = gen[c].turn
                    THEN [manifest[c] EXCEPT !.turn = 0, !.text = FALSE] ELSE manifest[c]
    <2>1. manifest' = [manifest EXCEPT ![c] = m]
      BY DEF EndWritten, TurnCleared
    <2>2. m \in [turn : Nat, pending : BOOLEAN, text : BOOLEAN]
      BY <1>1
    <2> HIDE DEF m
    <2> QED BY <1>1, <2>1, <2>2
  <1> QED BY <1>2, <1>3, <1>4

LEMMA FilesKeepTypes ==
  ASSUME ChatInv, [ChatNext]_ChatVars
  PROVE  FileTypes'
  <1> DEFINE Manifests == [LocalChats -> [turn : Nat, pending : BOOLEAN, text : BOOLEAN]]
  <1>1. /\ manifest \in Manifests /\ checkpoint \in [LocalChats -> Nat]
        /\ stored \in [SentTurns -> Nat] /\ ended \in [SentTurns -> Nat]
        /\ begun \in [LocalChats -> Nat] /\ writeFailures \in Nat
        /\ writeFailures + 1 \in Nat
    BY DEF ChatInv, FileTypes
  <1>2. LatestTurn + 1 \in Nat
    BY LatestIsNatural
  <1>3. CASE UNCHANGED <<ChatFiles, begun, writeFailures>>
    BY <1>1, <1>3 DEF FileTypes, ChatFiles
  <1>4. ASSUME NEW c \in LocalChats,
               \/ SendBegins(c) \/ ResolveBegins(c) \/ MutationBegins(c) \/ Interrupts(c)
               \/ MutationEnds(c) \/ Acquires(c) \/ GivesUp(c) \/ Starts(c) \/ Executes(c)
               \/ Resumes(c) \/ Says(c) \/ Answers(c) \/ Breaks(c)
        PROVE  FileTypes'
    BY <1>3, <1>4 DEF SendBegins, ResolveBegins, MutationBegins, CommandBegins, Interrupts,
       MutationEnds, Acquires, GivesUp, Starts, Executes, Resumes, Says, Answers, Breaks, ChatHistory
  <1>5. CASE \/ LocalCloseBegins \/ ReservationsEnd \/ LocalCloseEnds \/ LocalRestarts
             \/ Recovered \/ UNCHANGED ChatVars
    BY <1>3, <1>5 DEF LocalCloseBegins, ReservationsEnd, LocalCloseEnds, LocalRestarts, Recovered,
       ChatVars, ChatHistory
  <1>6. ASSUME NEW c \in LocalChats, TurnWritten(c)
        PROVE  manifest' \in Manifests /\ begun' \in [LocalChats -> Nat]
    BY <1>1, <1>2, <1>6 DEF TurnWritten
  <1>7. ASSUME NEW c \in LocalChats, BeginsTurn(c) \/ Executed(c) \/ CommandFails(c)
        PROVE  FileTypes'
    <2>1. TurnWritten(c) \/ (manifest' = [manifest EXCEPT ![c].pending = FALSE] /\ begun' = begun)
          \/ (manifest' = manifest /\ begun' = begun)
      BY <1>7 DEF BeginsTurn, Executed, CommandFails, ChatHistory
    <2>2. manifest' \in Manifests /\ begun' \in [LocalChats -> Nat]
      BY <1>1, <1>6, <2>1
    <2>3. /\ checkpoint' = checkpoint /\ stored' = stored /\ ended' = ended
          /\ writeFailures' \in {writeFailures, writeFailures + 1}
      BY <1>7 DEF BeginsTurn, Executed, CommandFails
    <2> QED BY <1>1, <2>2, <2>3 DEF FileTypes
  <1>8. ASSUME NEW c \in LocalChats, Checkpoints(c) \/ Unlinks(c)
        PROVE  FileTypes'
    <2>1. gen[c].turn \in Nat
      BY DEF ChatInv, GateTypes, GenerationType
    <2>2. checkpoint' \in [LocalChats -> Nat]
      BY <1>1, <1>8, <2>1 DEF Checkpoints, Unlinks
    <2>3. UNCHANGED <<manifest, stored, ended, begun, writeFailures>>
      BY <1>8 DEF Checkpoints, Unlinks, ChatHistory
    <2> QED BY <1>1, <2>2, <2>3 DEF FileTypes
  <1>9. ASSUME NEW c \in LocalChats, Asks(c)
        PROVE  FileTypes'
    <2>1. gen[c].text \in BOOLEAN
      BY DEF ChatInv, GateTypes, GenerationType
    <2>2. manifest' \in Manifests
      BY <1>1, <1>9, <2>1 DEF Asks
    <2>3. UNCHANGED <<checkpoint, stored, ended, begun, writeFailures>>
      BY <1>9 DEF Asks, ChatHistory
    <2> QED BY <1>1, <2>2, <2>3 DEF FileTypes
  <1>10. ASSUME NEW c \in LocalChats, Writes(c) \/ Finishes(c) \/ WriteFailsIn(c)
         PROVE  FileTypes'
    <2>1. EndWritten(c) \/ UNCHANGED <<manifest, stored, ended>>
      BY <1>10 DEF Writes, Finishes, WriteFailsIn
    <2>2. manifest' \in Manifests /\ stored' \in [SentTurns -> Nat] /\ ended' \in [SentTurns -> Nat]
      BY <1>1, <2>1, EndIsTyped DEF ChatInv
    <2>3. /\ checkpoint' = checkpoint /\ begun' = begun
          /\ writeFailures' \in {writeFailures, writeFailures + 1}
      BY <1>10 DEF Writes, Finishes, WriteFailsIn, ChatHistory
    <2> QED BY <1>1, <2>2, <2>3 DEF FileTypes
  <1>11. ASSUME NEW c \in LocalChats,
                RecoversText(c) \/ RecoveryUnlinks(c) \/ RecoversTurn(c) \/ RecoveryClears(c)
         PROVE  FileTypes'
    <2>1. UNCHANGED <<begun, writeFailures>>
      BY <1>11 DEF RecoversText, RecoveryUnlinks, RecoversTurn, RecoveryClears, ChatHistory
    <2>2. CASE RecoversText(c)
      <3>1. UNCHANGED <<manifest, checkpoint, ended>> /\ stored' \in [SentTurns -> Nat]
        BY <1>1, <2>2 DEF RecoversText
      <3> QED BY <1>1, <2>1, <3>1 DEF FileTypes
    <2>3. CASE RecoveryUnlinks(c)
      <3>1. UNCHANGED <<manifest, stored, ended>> /\ checkpoint' \in [LocalChats -> Nat]
        BY <1>1, <2>3 DEF RecoveryUnlinks
      <3> QED BY <1>1, <2>1, <3>1 DEF FileTypes
    <2>4. CASE RecoversTurn(c)
      <3>1. UNCHANGED <<manifest, stored, checkpoint>> /\ ended' \in [SentTurns -> Nat]
        BY <1>1, <2>4 DEF RecoversTurn, EndedOnce
      <3> QED BY <1>1, <2>1, <3>1 DEF FileTypes
    <2>5. CASE RecoveryClears(c)
      <3>1. UNCHANGED <<ended, stored, checkpoint>> /\ manifest' \in Manifests
        BY <1>1, <2>5 DEF RecoveryClears
      <3> QED BY <1>1, <2>1, <3>1 DEF FileTypes
    <2> QED BY <1>11, <2>2, <2>3, <2>4, <2>5
  <1> QED BY <1>4, <1>5, <1>7, <1>8, <1>9, <1>10, <1>11 DEF ChatNext, CommandNext, GenerationNext

LEMMA ChatStarts == ChatInit => ChatInv
  <1> SUFFICES ASSUME ChatInit PROVE ChatInv
    OBVIOUS
  <1>1. FileTypes
    BY DEF ChatInit, FileTypes
  <1>2. GateTypes /\ GateInv /\ CommandInv /\ PhaseInv
    BY NoneIsCounted DEF ChatInit
  <1> QED BY <1>1, <1>2 DEF ChatInv

LEMMA ChatKeeps == ChatInv /\ [ChatNext]_ChatVars => ChatInv'
  <1> SUFFICES ASSUME ChatInv, [ChatNext]_ChatVars PROVE ChatInv'
    OBVIOUS
  <1>1. FileTypes'
    BY FilesKeepTypes
  <1>2. ASSUME NEW c \in LocalChats,
               SendBegins(c) \/ ResolveBegins(c) \/ MutationBegins(c) \/ Interrupts(c)
        PROVE  GateKept
    BY <1>2, BeginsKeep, InterruptsKeeps
  <1>3. ASSUME NEW c \in LocalChats, CommandNext(c) \/ CommandFails(c)
        PROVE  GateKept
    BY <1>3, CommandsEndKeep, AcquiresKeeps, TurnsKeep, StartsKeep DEF CommandNext
  <1>4. ASSUME NEW c \in LocalChats,
               \/ Says(c) \/ Checkpoints(c) \/ Answers(c) \/ Breaks(c) \/ Asks(c)
               \/ GenerationNext(c) \/ WriteFailsIn(c)
        PROVE  GateKept
    BY <1>4, GenerationKeeps
  <1>5. ASSUME NEW c \in LocalChats,
               RecoversText(c) \/ RecoveryUnlinks(c) \/ RecoversTurn(c) \/ RecoveryClears(c)
        PROVE  GateKept
    BY <1>5, RecoveryKeeps
  <1>6. ASSUME \/ LocalCloseBegins \/ ReservationsEnd \/ LocalCloseEnds \/ LocalRestarts
               \/ Recovered
        PROVE  GateKept
    BY <1>6, CloseKeeps, ReservationsEndKeeps, ServiceKeeps, RestartsKeeps
  <1>7. ASSUME UNCHANGED ChatVars
        PROVE  GateKept
    <2>1. UNCHANGED <<command, gen, slots, queue, interrupt, chatService, awaited, recovery>>
      BY <1>7 DEF ChatVars, ChatGate, ChatLife
    <2>2. GateTypes /\ GateInv /\ CommandInv /\ PhaseInv
      BY DEF ChatInv
    <2>3. GateTypes' /\ CommandInv' /\ PhaseInv'
      BY <2>1, <2>2 DEF GateTypes, CommandInv, PhaseInv
    <2>4. GateInv'
      BY <2>1, <2>2 DEF GateInv
    <2> QED BY <2>3, <2>4 DEF GateKept
  <1>8. GateKept
    BY <1>2, <1>3, <1>4, <1>5, <1>6, <1>7 DEF ChatNext
  <1> QED BY <1>1, <1>8 DEF ChatInv, GateKept

(* The invariant of the gate, of the commands and of the phases of the     *)
(* service, from which the next two theorems follow                        *)
(* (localLlmGenerationGate.ts:68, localLlmChatService.ts:487).             *)
THEOREM GateInvariant == ChatSpec => []ChatInv
  <1> QED BY ChatStarts, ChatKeeps, PTL DEF ChatSpec

(* A slot in use always belongs to one generation or to one command that   *)
(* starts it, there are never more than the gate has, and nobody waits     *)
(* while one is free (localLlmGenerationGate.ts:68).                       *)
THEOREM SlotsAreCounted == ChatSpec => []SlotsCounted
  <1>1. ChatInv => SlotsCounted
    <2> SUFFICES ASSUME ChatInv PROVE SlotsCounted
      OBVIOUS
    <2>1. NoGeneration.step = "none"
      BY DEF NoGeneration
    <2>2. {c \in LocalChats : Generating(c)} = GeneratingIn(gen)
      BY <2>1 DEF ChatInv, CommandInv, CommandFits, GeneratingIn, Generating
    <2>3. {c \in LocalChats : command[c].step \in {"granted", "begun", "executing", "resuming"}}
            = HeldIn(command)
      BY DEF HeldIn, Holds
    <2> QED BY <2>2, <2>3 DEF ChatInv, GateInv, SlotsCounted
  <1> QED BY <1>1, GateInvariant, PTL

(* Nothing starts or generates once close() has ended, whatever a command  *)
(* had started after the first look (localLlmChatService.ts:487).          *)
THEOREM ClosesQuietly == ChatSpec => []ClosedIsQuiet
  <1>1. ChatInv => ClosedIsQuiet
    BY DEF ChatInv, PhaseInv, CommandInv, CommandFits, ClosedIsQuiet, Reserved, Generating
  <1> QED BY <1>1, GateInvariant, PTL

-----------------------------------------------------------------------------
(* Turns: each is of one chat, is named in order, and there are never more *)
(* of them than are sent.                                                  *)
NumbersInv ==
  /\ \A c \in LocalChats : begun[c] \in 0 .. MaxSends
  /\ LatestTurn + Cardinality(SendsUnderWay) <= MaxSends
  /\ \A c, d \in LocalChats : begun[c] = begun[d] /\ begun[c] # 0 => c = d
  /\ \A t \in spoken : t \in 1 .. LatestTurn
  /\ \A t \in SentTurns : /\ t > LatestTurn => ended[t] = 0
                          /\ writeFailures = 0 => ended[t] <= 1

(* What a chat does, it does for the turn that it has begun last.          *)
TurnFits(c) ==
  /\ manifest[c].turn \in {0, begun[c]}
  /\ gen[c].step # "none" => gen[c].turn = begun[c] /\ begun[c] # 0
  /\ command[c].step \in {"begun", "executing", "resuming"} =>
       command[c].turn = begun[c] /\ begun[c] # 0
  /\ command[c].kind = "send" /\ command[c].step \in {"queued", "granted", "begun"} =>
       ~manifest[c].pending

(* The checkpoint goes when the message is there, and not before.          *)
KeptFor(c) ==
  /\ begun[c] \in spoken => (checkpoint[c] = begun[c] \/ stored[begun[c]] > 0)
  /\ gen[c].step = "unlinking" => stored[begun[c]] > 0
  /\ recovery[c] = "unlink" /\ begun[c] \in spoken => stored[begun[c]] > 0

(* Until a write fails, a turn that may still end has not ended, and an    *)
(* action is pending only while its generation stops.                      *)
OnceFor(c) ==
  /\ (\/ command[c].step \in {"begun", "executing", "resuming"}
      \/ gen[c].step \in {"running", "pausing", "saving", "unlinking", "ending"}
      \/ manifest[c].pending /\ manifest[c].turn # 0)
       => (begun[c] # 0 => ended[begun[c]] = 0)
  /\ gen[c].step \in {"running", "saving", "unlinking", "ending", "clearing"} =>
       ~manifest[c].pending
  /\ command[c].step \in {"executing", "resuming"} => gen[c].step \in {"none", "pausing"}
  /\ command[c].step = "resuming" => ~manifest[c].pending
  /\ gen[c].step \in {"running", "pausing"} => ~gen[c].caught

(* The manifest is cleared when the end is in the ledger, and not before.  *)
EndedFor(c) ==
  /\ begun[c] \notin {0, manifest[c].turn} => ended[begun[c]] > 0
  /\ gen[c].step = "clearing" \/ recovery[c] = "clear" => begun[c] # 0 /\ ended[begun[c]] > 0
  /\ writeFailures = 0 => OnceFor(c)

ChatFits(c) == TurnFits(c) /\ KeptFor(c) /\ EndedFor(c)

TurnInv == NumbersInv /\ \A c \in LocalChats : ChatFits(c)

(* The latest turn is the greatest that was begun.                         *)
TurnsUpTo == {t \in SentTurns : \E c \in LocalChats : begun[c] >= t}

LEMMA LatestIsGreatest ==
  ASSUME \A c \in LocalChats : begun[c] \in 0 .. MaxSends
  PROVE  /\ LatestTurn \in 0 .. MaxSends /\ TurnsUpTo = 1 .. LatestTurn
         /\ \A c \in LocalChats : begun[c] <= LatestTurn
  <1>1. IsFiniteSet(SentTurns) /\ Cardinality(SentTurns) = MaxSends
    <2>1. Cardinality(1 .. MaxSends) = IF 1 > MaxSends THEN 0 ELSE MaxSends - 1 + 1
      BY FS_Interval, SendsAssumption
    <2> QED BY <2>1, FS_Interval, SendsAssumption DEF SentTurns
  <1>2. /\ IsFiniteSet(TurnsUpTo) /\ Cardinality(TurnsUpTo) \in Nat
        /\ Cardinality(TurnsUpTo) <= MaxSends /\ LatestTurn = Cardinality(TurnsUpTo)
    <2>1. TurnsUpTo \in SUBSET SentTurns
      BY DEF TurnsUpTo
    <2> QED BY <1>1, <2>1, FS_Subset, FS_CardinalityType DEF LatestTurn, TurnsUpTo
  <1> DEFINE n == LatestTurn
  <1>3. n \in 0 .. MaxSends
    BY <1>2, SendsAssumption
  <1>4. ASSUME NEW t \in TurnsUpTo
        PROVE  t \in 1 .. n
    <2>1. t \in Nat /\ t >= 1
      BY SendsAssumption DEF TurnsUpTo, SentTurns
    <2>2. 1 .. t \in SUBSET TurnsUpTo
      <3>1. PICK c \in LocalChats : begun[c] >= t
        BY <1>4 DEF TurnsUpTo
      <3>2. begun[c] \in Nat /\ t \in SentTurns
        BY SendsAssumption DEF TurnsUpTo
      <3>3. ASSUME NEW u \in 1 .. t
            PROVE  u \in SentTurns /\ begun[c] >= u
        BY <2>1, <3>1, <3>2, SendsAssumption DEF SentTurns
      <3> QED BY <3>3 DEF TurnsUpTo
    <2>3. Cardinality(1 .. t) = t
      <3>1. Cardinality(1 .. t) = IF 1 > t THEN 0 ELSE t - 1 + 1
        BY <2>1, FS_Interval
      <3> QED BY <2>1, <3>1
    <2>4. Cardinality(1 .. t) <= Cardinality(TurnsUpTo)
      BY <1>2, <2>2, FS_Subset
    <2> QED BY <1>2, <2>1, <2>3, <2>4
  <1>5. TurnsUpTo = 1 .. n
    <2>1. IsFiniteSet(1 .. n) /\ Cardinality(1 .. n) = n
      <3>1. /\ IsFiniteSet(1 .. n)
            /\ Cardinality(1 .. n) = IF 1 > n THEN 0 ELSE n - 1 + 1
        BY <1>3, FS_Interval
      <3> QED BY <1>3, <3>1
    <2>2. TurnsUpTo \in SUBSET (1 .. n)
      BY <1>4
    <2> QED BY <1>2, <2>1, <2>2, FS_Subset
  <1>6. ASSUME NEW c \in LocalChats
        PROVE  begun[c] <= n
    <2>1. CASE begun[c] = 0
      BY <1>3, <2>1
    <2>2. CASE begun[c] # 0
      <3>1. begun[c] \in SentTurns /\ begun[c] >= begun[c]
        BY <2>2, SendsAssumption DEF SentTurns
      <3>2. begun[c] \in TurnsUpTo
        BY <3>1 DEF TurnsUpTo
      <3> QED BY <1>4, <3>2
    <2> QED BY <2>1, <2>2
  <1> QED BY <1>3, <1>5, <1>6

LEMMA LatestStays ==
  ASSUME begun' = begun
  PROVE  LatestTurn' = LatestTurn
  BY DEF LatestTurn

LEMMA LatestGrows ==
  ASSUME \A d \in LocalChats : begun[d] \in 0 .. MaxSends, begun \in [LocalChats -> Nat],
         NEW c \in LocalChats, begun' = [begun EXCEPT ![c] = LatestTurn + 1],
         LatestTurn + 1 <= MaxSends
  PROVE  /\ LatestTurn' = LatestTurn + 1 /\ begun'[c] = LatestTurn + 1
         /\ \A d \in LocalChats \ {c} : begun'[d] = begun[d]
         /\ \A d \in LocalChats : begun'[d] \in 0 .. MaxSends
  <1> DEFINE n == LatestTurn
  <1>1. n \in 0 .. MaxSends /\ \A d \in LocalChats : begun[d] <= n
    BY LatestIsGreatest
  <1>2. /\ begun'[c] = n + 1 /\ \A d \in LocalChats \ {c} : begun'[d] = begun[d]
        /\ n + 1 \in 0 .. MaxSends
    BY <1>1, SendsAssumption
  <1> HIDE DEF n
  <1>3. \A d \in LocalChats : begun'[d] \in 0 .. MaxSends /\ begun'[d] <= n + 1
    BY <1>1, <1>2, SendsAssumption
  <1>4. {t \in SentTurns : \E d \in LocalChats : begun'[d] >= t} = 1 .. n + 1
    <2>1. ASSUME NEW t \in SentTurns, NEW d \in LocalChats, begun'[d] >= t
          PROVE  t \in 1 .. n + 1
      BY <1>1, <1>3, <2>1, SendsAssumption DEF SentTurns
    <2>2. ASSUME NEW t \in 1 .. n + 1
          PROVE  t \in SentTurns /\ begun'[c] >= t
      BY <1>1, <1>2, <2>2, SendsAssumption DEF SentTurns
    <2> QED BY <2>1, <2>2
  <1>5. Cardinality(1 .. n + 1) = n + 1
    <2>1. n + 1 \in Int /\ ~(1 > n + 1) /\ n + 1 - 1 + 1 = n + 1
      BY <1>1, SendsAssumption
    <2>2. Cardinality(1 .. n + 1) = IF 1 > n + 1 THEN 0 ELSE n + 1 - 1 + 1
      BY <2>1, FS_Interval
    <2> QED BY <2>1, <2>2
  <1>6. LatestTurn' = Cardinality({t \in SentTurns : \E d \in LocalChats : begun'[d] >= t})
    BY DEF LatestTurn
  <1>7. LatestTurn' = n + 1
    BY ONLY <1>4, <1>5, <1>6
  <1> QED BY <1>2, <1>3, <1>7 DEF n

(* What is sent and not yet begun does not grow.                           *)
Sends(commands) == {d \in LocalChats : commands[d].kind = "send" /\ commands[d].turn = 0}

LEMMA NumbersStay ==
  ASSUME ChatInv, NumbersInv, begun' = begun, ended' \in [SentTurns -> Nat],
         \A d \in LocalChats : command'[d].kind = "send" /\ command'[d].turn = 0 =>
                                 command[d].kind = "send" /\ command[d].turn = 0,
         \A t \in spoken' : t \in spoken \/ \E d \in LocalChats : t = begun[d] /\ t # 0,
         \A t \in SentTurns :
           \/ ended'[t] = ended[t]
           \/ /\ \E d \in LocalChats : t = begun[d]
              /\ writeFailures' = 0 => ended'[t] <= 1,
         writeFailures' = 0 => writeFailures = 0
  PROVE  NumbersInv'
  <1>1. /\ LatestTurn' = LatestTurn /\ LatestTurn \in 0 .. MaxSends
        /\ \A c \in LocalChats : begun[c] \in 0 .. MaxSends /\ begun[c] <= LatestTurn
    BY LatestStays, LatestIsGreatest DEF NumbersInv
  <1>2. LatestTurn' + Cardinality(SendsUnderWay') <= MaxSends
    <2>1. SendsUnderWay' \in SUBSET SendsUnderWay
      BY DEF SendsUnderWay
    <2>2. IsFiniteSet(SendsUnderWay) /\ Cardinality(SendsUnderWay) \in Nat
      BY ChatsAreFinite DEF SendsUnderWay
    <2>3. /\ Cardinality(SendsUnderWay') <= Cardinality(SendsUnderWay)
          /\ Cardinality(SendsUnderWay') \in Nat
      BY <2>1, <2>2, FS_Subset, FS_CardinalityType
    <2>4. LatestTurn + Cardinality(SendsUnderWay) <= MaxSends
      BY DEF NumbersInv
    <2> QED BY <1>1, <2>2, <2>3, <2>4, SendsAssumption
  <1>3. \A t \in spoken' : t \in 1 .. LatestTurn
    <2> SUFFICES ASSUME NEW t \in spoken' PROVE t \in 1 .. LatestTurn
      OBVIOUS
    <2>1. CASE t \in spoken
      BY <2>1 DEF NumbersInv
    <2>2. ASSUME NEW d \in LocalChats, t = begun[d], t # 0
          PROVE  t \in 1 .. LatestTurn
      BY <1>1, <2>2, SendsAssumption
    <2> QED BY <2>1, <2>2
  <1>4. ASSUME NEW t \in SentTurns
        PROVE  /\ t > LatestTurn => ended'[t] = 0
               /\ writeFailures' = 0 => ended'[t] <= 1
    <2>1. /\ t > LatestTurn => ended[t] = 0
          /\ writeFailures = 0 => ended[t] <= 1
      BY DEF NumbersInv
    <2>2. t > LatestTurn => \A d \in LocalChats : t # begun[d]
      BY <1>1, SendsAssumption DEF SentTurns
    <2> QED BY <2>1, <2>2
  <1>5. \A c, d \in LocalChats : begun[c] = begun[d] /\ begun[c] # 0 => c = d
    BY DEF NumbersInv
  <1> QED BY <1>1, <1>2, <1>3, <1>4, <1>5 DEF NumbersInv

(* A chat of which only the gate, an interrupt or the service decides.     *)
Stays(old, new) ==
  \/ new.step \in {"none", "reading"}
  \/ /\ new.kind = old.kind /\ new.turn = old.turn
     /\ new.step = old.step \/ (old.step = "queued" /\ new.step = "granted")

GenStays(old, new) ==
  \/ new.step = "none"
  \/ /\ new.step = old.step /\ new.turn = old.turn /\ new.caught = old.caught

LEMMA FitStays ==
  ASSUME TurnInv, NEW d \in LocalChats,
         Stays(command[d], command'[d]), GenStays(gen[d], gen'[d]),
         manifest'[d] = manifest[d], checkpoint'[d] = checkpoint[d], begun'[d] = begun[d],
         recovery'[d] \in {recovery[d], "checkpoint", "done"},
         begun[d] \in spoken' => begun[d] \in spoken,
         begun[d] \in SentTurns => /\ stored[begun[d]] > 0 => stored'[begun[d]] > 0
                                   /\ ended'[begun[d]] = ended[begun[d]],
         writeFailures' = 0 => writeFailures = 0
  PROVE  ChatFits(d)'
  <1>1. /\ TurnFits(d) /\ KeptFor(d) /\ EndedFor(d)
        /\ begun[d] \in SentTurns \/ begun[d] = 0
        /\ begun[d] \in spoken => begun[d] # 0
    <2>1. begun[d] \in 0 .. MaxSends /\ \A t \in spoken : t \in 1 .. LatestTurn
      BY DEF TurnInv, NumbersInv
    <2>2. begun[d] \in SentTurns \/ begun[d] = 0
      BY <2>1, SendsAssumption DEF SentTurns
    <2>3. begun[d] \in spoken => begun[d] # 0
      BY <2>1, LatestIsNatural
    <2> QED BY <2>2, <2>3 DEF TurnInv, ChatFits
  <1>2. TurnFits(d)'
    BY <1>1 DEF TurnFits, Stays, GenStays
  <1>3. KeptFor(d)'
    BY <1>1 DEF KeptFor, TurnFits, GenStays
  <1>4. OnceFor(d) => OnceFor(d)'
    BY <1>1 DEF OnceFor, Stays, GenStays
  <1>5. EndedFor(d)'
    BY <1>1, <1>4 DEF EndedFor, GenStays
  <1> QED BY <1>2, <1>3, <1>5 DEF ChatFits

LEMMA MovedStays ==
  ASSUME NEW old \in CommandType, NEW new, Moved(old, new)
  PROVE  Stays(old, new) /\ new.kind = old.kind /\ new.turn = old.turn
  <1>1. CASE new = old
    BY <1>1 DEF Stays
  <1>2. CASE old.step = "queued" /\ new = [old EXCEPT !.step = "granted"]
    <2>1. new.step = "granted" /\ new.kind = old.kind /\ new.turn = old.turn
      BY <1>2 DEF CommandType
    <2> QED BY <1>2, <2>1 DEF Stays
  <1> QED BY <1>1, <1>2 DEF Moved

LEMMA AlikeStays ==
  ASSUME NEW old, NEW new, Alike(new, old)
  PROVE  GenStays(old, new)
  BY DEF Alike, GenStays

LEMMA AllStay ==
  ASSUME ChatInv, TurnInv, UNCHANGED <<ChatFiles, begun, spoken, writeFailures>>,
         \A d \in LocalChats :
           /\ Stays(command[d], command'[d]) /\ GenStays(gen[d], gen'[d])
           /\ recovery'[d] \in {recovery[d], "checkpoint", "done"}
           /\ command'[d].kind = "send" /\ command'[d].turn = 0 =>
                command[d].kind = "send" /\ command[d].turn = 0
  PROVE  TurnInv'
  <1>1. /\ manifest' = manifest /\ checkpoint' = checkpoint /\ stored' = stored
        /\ ended' = ended /\ begun' = begun /\ spoken' = spoken
        /\ writeFailures' = writeFailures
    BY DEF ChatFiles
  <1>2. ASSUME NEW d \in LocalChats
        PROVE  ChatFits(d)'
    BY <1>1, FitStays
  <1>3. NumbersInv'
    <2>1. NumbersInv /\ ended' \in [SentTurns -> Nat]
      BY <1>1 DEF TurnInv, ChatInv, FileTypes
    <2> QED BY <1>1, <2>1, NumbersStay
  <1> QED BY <1>2, <1>3 DEF TurnInv

LEMMA OthersFit ==
  ASSUME ChatInv, TurnInv, NEW c \in LocalChats,
         \A d \in LocalChats \ {c} :
           /\ Moved(command[d], command'[d]) /\ GenStays(gen[d], gen'[d])
           /\ manifest'[d] = manifest[d] /\ checkpoint'[d] = checkpoint[d]
           /\ begun'[d] = begun[d] /\ recovery'[d] = recovery[d],
         \A t \in spoken' : t \in spoken \/ (t = begun[c] /\ t # 0),
         \A t \in SentTurns : /\ stored[t] > 0 => stored'[t] > 0
                              /\ ended'[t] = ended[t] \/ t = begun[c],
         writeFailures' = 0 => writeFailures = 0
  PROVE  \A d \in LocalChats \ {c} : ChatFits(d)'
  <1> SUFFICES ASSUME NEW d \in LocalChats \ {c} PROVE ChatFits(d)'
    OBVIOUS
  <1>1. /\ command[d] \in CommandType /\ 0 \notin SentTurns
        /\ begun[d] = begun[c] => begun[d] = 0
        /\ 0 \notin spoken
    <2>1. \A t \in spoken : t \in 1 .. LatestTurn
      BY DEF TurnInv, NumbersInv
    <2>2. 0 \notin spoken
      BY <2>1, LatestIsNatural
    <2>3. begun[d] = begun[c] => begun[d] = 0
      BY DEF TurnInv, NumbersInv
    <2>4. 0 \notin SentTurns
      BY SendsAssumption DEF SentTurns
    <2> QED BY <2>2, <2>3, <2>4 DEF ChatInv, GateTypes
  <1>2. Stays(command[d], command'[d])
    BY <1>1, MovedStays
  <1>3. begun[d] \in spoken' => begun[d] \in spoken
    BY <1>1
  <1>4. begun[d] \in SentTurns => /\ stored[begun[d]] > 0 => stored'[begun[d]] > 0
                                  /\ ended'[begun[d]] = ended[begun[d]]
    BY <1>1
  <1> QED BY <1>2, <1>3, <1>4, FitStays

LEMMA NothingIsReserved == NoCommand.step = "none" /\ NoCommand.kind = "none"
  BY DEF NoCommand

(* What only the gate, interrupts and the service do.                      *)
LEMMA BegunStay ==
  ASSUME ChatInv, TurnInv, NEW c \in LocalChats,
         SendBegins(c) \/ ResolveBegins(c) \/ MutationBegins(c)
  PROVE  TurnInv'
  <1>1. PICK kind \in {"send", "generation", "mutation"} :
          /\ CommandBegins(c, kind)
          /\ kind = "send" => LatestTurn + Cardinality(SendsUnderWay) < MaxSends
    BY DEF SendBegins, ResolveBegins, MutationBegins
  <1> DEFINE cmd == [NoCommand EXCEPT !.kind = kind, !.step = "reading"]
  <1>2. /\ command[c] = NoCommand /\ command' = [command EXCEPT ![c] = cmd]
        /\ UNCHANGED <<ChatFiles, begun, spoken, writeFailures, gen, recovery>>
    BY <1>1 DEF CommandBegins, Reserved, ChatHistory, ChatLife
  <1>3. cmd.step = "reading" /\ cmd.kind = kind /\ cmd.turn = 0
    BY DEF NoCommand
  <1> HIDE DEF cmd
  <1>4. /\ command'[c] = cmd /\ \A d \in LocalChats \ {c} : command'[d] = command[d]
    BY <1>2 DEF ChatInv, GateTypes
  <1>5. \A d \in LocalChats : Stays(command[d], command'[d]) /\ GenStays(gen[d], gen'[d])
    BY <1>2, <1>3, <1>4 DEF Stays, GenStays
  <1>6. CASE kind # "send"
    BY <1>2, <1>3, <1>4, <1>5, <1>6, AllStay
  <1>7. CASE kind = "send"
    <2>1. ASSUME NEW d \in LocalChats
          PROVE  ChatFits(d)'
      BY <1>2, <1>5, FitStays DEF ChatFiles
    <2>2. LatestTurn' = LatestTurn
      BY <1>2, LatestStays
    <2>3. LatestTurn' + Cardinality(SendsUnderWay') <= MaxSends
      <3>1. SendsUnderWay' = SendsUnderWay \cup {c} /\ c \notin SendsUnderWay
        BY <1>2, <1>3, <1>4, <1>7, NothingIsReserved DEF SendsUnderWay
      <3>2. IsFiniteSet(SendsUnderWay)
        BY ChatsAreFinite DEF SendsUnderWay
      <3>3. /\ Cardinality(SendsUnderWay') = Cardinality(SendsUnderWay) + 1
            /\ Cardinality(SendsUnderWay) \in Nat
        BY <3>1, <3>2, Joins
      <3> QED BY <1>1, <1>7, <2>2, <3>3, LatestIsNatural, SendsAssumption
    <2>4. NumbersInv
      BY DEF TurnInv
    <2>5. begun' = begun /\ spoken' = spoken /\ ended' = ended /\ writeFailures' = writeFailures
      BY <1>2 DEF ChatFiles
    <2>6. NumbersInv'
      BY <2>2, <2>3, <2>4, <2>5 DEF NumbersInv
    <2> QED BY <2>1, <2>6 DEF TurnInv
  <1> QED BY <1>6, <1>7

(* A command that ends; its write may have failed before.                  *)
LEMMA EndedShape ==
  ASSUME ChatInv, NEW c \in LocalChats, UNCHANGED ChatLife,
         \/ command[c].step = "reading" /\ CommandEnds(c)
         \/ command[c].step \in Holds /\ CommandEndsAndReleases(c)
  PROVE  /\ command'[c] = NoCommand
         /\ \A d \in LocalChats \ {c} : Moved(command[d], command'[d])
         /\ \A d \in LocalChats : Stays(command[d], command'[d]) /\ GenStays(gen[d], gen'[d])
         /\ \A d \in LocalChats : command'[d].kind = "send" /\ command'[d].turn = 0 =>
              command[d].kind = "send" /\ command[d].turn = 0 /\ d # c
  <1>1. /\ command'[c] = NoCommand
        /\ \A d \in LocalChats \ {c} : Moved(command[d], command'[d])
        /\ \A d \in LocalChats : Alike(gen'[d], gen[d])
    BY EndIsCounted, EndAndReleaseIsCounted
  <1>2. \A d \in LocalChats : command[d] \in CommandType
    BY DEF ChatInv, GateTypes
  <1>3. \A d \in LocalChats : GenStays(gen[d], gen'[d])
    BY <1>1, AlikeStays
  <1>4. \A d \in LocalChats \ {c} : /\ Stays(command[d], command'[d])
                                   /\ command'[d].kind = command[d].kind
                                   /\ command'[d].turn = command[d].turn
    BY <1>1, <1>2, MovedStays
  <1>5. Stays(command[c], command'[c])
    BY <1>1, NothingIsReserved DEF Stays
  <1> QED BY <1>1, <1>3, <1>4, <1>5, NothingIsReserved

LEMMA EndedStay ==
  ASSUME ChatInv, TurnInv, NEW c \in LocalChats,
         \/ MutationEnds(c) \/ GivesUp(c) \/ (Resumes(c) /\ Generating(c))
         \/ Acquires(c) /\ CommandEnds(c)
  PROVE  TurnInv'
  <1>1. UNCHANGED <<ChatFiles, ChatHistory, ChatLife, writeFailures>>
    BY DEF MutationEnds, GivesUp, Resumes, Acquires
  <1>2. CommandFits(command[c], gen[c])
    BY DEF ChatInv, CommandInv
  <1>3. \/ command[c].step = "reading" /\ CommandEnds(c)
        \/ command[c].step \in Holds /\ CommandEndsAndReleases(c)
    BY <1>2 DEF MutationEnds, GivesUp, Resumes, Acquires, CommandFits, Holds
  <1>4. UNCHANGED <<ChatFiles, begun, spoken, writeFailures>> /\ recovery' = recovery
    BY <1>1 DEF ChatHistory, ChatLife
  <1> QED BY <1>1, <1>3, <1>4, EndedShape, AllStay

LEMMA AcquiredStay ==
  ASSUME ChatInv, TurnInv, NEW c \in LocalChats, Acquires(c), ~CommandEnds(c)
  PROVE  TurnInv'
  <1>1. PICK step \in {"granted", "queued"} : command' = [command EXCEPT ![c].step = step]
    BY DEF Acquires
  <1>2. /\ gen' = gen /\ command[c].step = "reading"
        /\ command[c].kind = "send" => ~manifest[c].pending
        /\ UNCHANGED <<ChatFiles, begun, spoken, writeFailures, recovery>>
    BY DEF Acquires, ChatHistory, ChatLife
  <1>3. /\ command'[c].step = step /\ command'[c].kind = command[c].kind
        /\ command'[c].turn = command[c].turn
        /\ \A d \in LocalChats \ {c} : command'[d] = command[d]
    BY <1>1 DEF ChatInv, GateTypes, CommandType
  <1>4. /\ manifest' = manifest /\ checkpoint' = checkpoint /\ stored' = stored
        /\ ended' = ended /\ begun' = begun /\ spoken' = spoken
        /\ writeFailures' = writeFailures /\ recovery' = recovery
    BY <1>2 DEF ChatFiles
  <1>5. NumbersInv'
    <2>1. NumbersInv /\ ended' \in [SentTurns -> Nat]
      BY <1>4 DEF TurnInv, ChatInv, FileTypes
    <2> QED BY <1>3, <1>4, <2>1, NumbersStay
  <1>6. \A d \in LocalChats \ {c} : ChatFits(d)'
    BY <1>2, <1>3, <1>4, OthersFit DEF Moved, GenStays
  <1>7. TurnFits(c) /\ KeptFor(c) /\ EndedFor(c)
    BY DEF TurnInv, ChatFits
  <1>8. TurnFits(c)' /\ KeptFor(c)'
    BY <1>2, <1>3, <1>4, <1>7 DEF TurnFits, KeptFor
  <1>9. EndedFor(c)'
    BY <1>2, <1>3, <1>4, <1>7 DEF EndedFor, OnceFor
  <1> QED BY <1>5, <1>6, <1>8, <1>9 DEF TurnInv, ChatFits

LEMMA CancelledStays ==
  ASSUME NEW cmd \in CommandType
  PROVE  /\ Stays(cmd, Cancelled(cmd))
         /\ Cancelled(cmd).kind = cmd.kind /\ Cancelled(cmd).turn = cmd.turn
  <1>1. /\ Cancelled(cmd).kind = cmd.kind /\ Cancelled(cmd).turn = cmd.turn
        /\ Cancelled(cmd).step = IF cmd.step = "queued" THEN "reading" ELSE cmd.step
    BY DEF Cancelled, CommandType
  <1> QED BY <1>1 DEF Stays

LEMMA InterruptedStay ==
  ASSUME ChatInv, TurnInv, NEW c \in LocalChats, Interrupts(c)
  PROVE  TurnInv'
  <1>1. /\ UNCHANGED <<ChatFiles, begun, spoken, writeFailures, recovery>>
        /\ GateTypes /\ CommandInv
    BY DEF Interrupts, ChatHistory, ChatLife, ChatInv
  <1>2. \A d \in LocalChats : /\ Stays(command[d], command'[d])
                             /\ command'[d].kind = command[d].kind
                             /\ command'[d].turn = command[d].turn
    <2>1. command' = command \/ command' = [command EXCEPT ![c] = Cancelled(@)]
      BY <1>1 DEF Interrupts, GateTypes
    <2>2. CASE command' = command
      BY <2>2 DEF Stays
    <2>3. CASE command' = [command EXCEPT ![c] = Cancelled(@)]
      <3>1. command'[c] = Cancelled(command[c]) /\ command[c] \in CommandType
            /\ \A d \in LocalChats \ {c} : command'[d] = command[d]
        BY <1>1, <2>3 DEF GateTypes
      <3>2. Stays(command[c], command'[c]) /\ command'[c].kind = command[c].kind
            /\ command'[c].turn = command[c].turn
        BY <3>1, CancelledStays
      <3>3. \A d \in LocalChats \ {c} : Stays(command[d], command'[d])
        BY <3>1 DEF Stays
      <3> QED BY <3>1, <3>2, <3>3
    <2> QED BY <2>1, <2>2, <2>3
  <1>3. \A d \in LocalChats : GenStays(gen[d], gen'[d])
    <2>1. gen' = gen \/ gen' = [gen EXCEPT ![c].aborted = TRUE]
      BY DEF Interrupts
    <2> QED BY <1>1, <2>1 DEF GenStays, GateTypes, GenerationType
  <1> QED BY <1>1, <1>2, <1>3, AllStay

LEMMA ServiceStays ==
  ASSUME ChatInv, TurnInv,
         \/ LocalCloseBegins \/ ReservationsEnd \/ LocalCloseEnds \/ LocalRestarts \/ Recovered
         \/ UNCHANGED ChatVars
  PROVE  TurnInv'
  <1>1. GateTypes /\ CommandInv
    BY DEF ChatInv
  <1>2. UNCHANGED <<ChatFiles, begun, spoken, writeFailures>>
    BY DEF LocalCloseBegins, ReservationsEnd, LocalCloseEnds, LocalRestarts, Recovered, ChatHistory,
       ChatVars
  <1>3. \A d \in LocalChats : recovery'[d] \in {recovery[d], "checkpoint", "done"}
    BY DEF LocalCloseBegins, ReservationsEnd, LocalCloseEnds, LocalRestarts, Recovered, ChatLife,
       ChatVars
  <1>4. \A d \in LocalChats : GenStays(gen[d], gen'[d])
    <2>1. CASE LocalCloseBegins \/ ReservationsEnd
      <3>1. gen' = Aborted(gen)
        BY <2>1 DEF LocalCloseBegins, ReservationsEnd
      <3>2. \A d \in LocalChats : Alike(gen'[d], gen[d])
        BY <1>1, <3>1, AbortedIsAlike
      <3> QED BY <3>2, AlikeStays
    <2>2. CASE LocalCloseEnds \/ Recovered \/ UNCHANGED ChatVars
      BY <2>2 DEF LocalCloseEnds, Recovered, ChatVars, GenStays
    <2>3. CASE LocalRestarts
      BY <2>3 DEF LocalRestarts, NoGeneration, GenStays
    <2> QED BY <2>1, <2>2, <2>3
  <1>5. ASSUME NEW d \in LocalChats
        PROVE  /\ Stays(command[d], command'[d])
               /\ command'[d].kind = "send" /\ command'[d].turn = 0 =>
                    command[d].kind = "send" /\ command[d].turn = 0
    <2>1. CASE command'[d] = command[d]
      BY <2>1 DEF Stays
    <2>2. CASE command'[d] = NoCommand
      BY <2>2, NothingIsReserved DEF Stays
    <2>3. CASE command'[d] = Cancelled(command[d])
      BY <1>1, <2>3, CancelledStays DEF GateTypes
    <2> QED BY <2>1, <2>2, <2>3 DEF LocalCloseBegins, ReservationsEnd, LocalCloseEnds,
            LocalRestarts, Recovered, ChatVars
  <1> QED BY <1>2, <1>3, <1>4, <1>5, AllStay

(* What a chat knows of itself before a step of its own.                   *)
LEMMA Own ==
  ASSUME ChatInv, TurnInv, NEW c \in LocalChats
  PROVE  /\ TurnFits(c) /\ KeptFor(c) /\ EndedFor(c)
         /\ CommandFits(command[c], gen[c])
         /\ command[c] \in CommandType /\ gen[c] \in GenerationType
         /\ begun[c] \in SentTurns \cup {0} /\ 0 \notin SentTurns /\ 0 \notin spoken
         /\ (command[c].step # "none" \/ gen[c].step # "none") => recovery[c] = "done"
  <1>1. begun[c] \in 0 .. MaxSends /\ \A t \in spoken : t \in 1 .. LatestTurn
    BY DEF TurnInv, NumbersInv
  <1>2. begun[c] \in SentTurns \cup {0} /\ 0 \notin SentTurns
    BY <1>1, SendsAssumption DEF SentTurns
  <1>3. 0 \notin spoken
    BY <1>1, LatestIsNatural
  <1>4. (command[c].step # "none" \/ gen[c].step # "none") => recovery[c] = "done"
    BY DEF ChatInv, PhaseInv
  <1>5. /\ CommandFits(command[c], gen[c]) /\ command[c] \in CommandType
        /\ gen[c] \in GenerationType
    BY DEF ChatInv, CommandInv, GateTypes
  <1>6. TurnFits(c) /\ KeptFor(c) /\ EndedFor(c)
    BY DEF TurnInv, ChatFits
  <1> QED BY <1>2, <1>3, <1>4, <1>5, <1>6

(* A step of one chat, which names no turn: what is left to show is what   *)
(* it makes of its own chat.                                               *)
LEMMA StepFits ==
  ASSUME ChatInv, TurnInv, NEW c \in LocalChats, ended' \in [SentTurns -> Nat],
         begun' = begun,
         \A d \in LocalChats \ {c} :
           /\ Moved(command[d], command'[d]) /\ GenStays(gen[d], gen'[d])
           /\ manifest'[d] = manifest[d] /\ checkpoint'[d] = checkpoint[d]
           /\ recovery'[d] = recovery[d],
         command'[c].kind = "send" /\ command'[c].turn = 0 =>
           command[c].kind = "send" /\ command[c].turn = 0,
         \A t \in spoken' : t \in spoken \/ (t = begun[c] /\ t # 0),
         \A t \in SentTurns :
           /\ stored[t] > 0 => stored'[t] > 0
           /\ \/ ended'[t] = ended[t]
              \/ t = begun[c] /\ (writeFailures' = 0 => ended'[t] <= 1),
         writeFailures' = 0 => writeFailures = 0,
         ChatFits(c)'
  PROVE  TurnInv'
  <1>1. \A d \in LocalChats \ {c} : ChatFits(d)'
    BY OthersFit
  <1>2. \A d \in LocalChats : command'[d].kind = "send" /\ command'[d].turn = 0 =>
                                command[d].kind = "send" /\ command[d].turn = 0
    <2>1. ASSUME NEW d \in LocalChats \ {c}
          PROVE  command'[d].kind = command[d].kind /\ command'[d].turn = command[d].turn
      <3>1. command[d] \in CommandType /\ Moved(command[d], command'[d])
        BY DEF ChatInv, GateTypes
      <3> QED BY ONLY <3>1, MovedStays
    <2> QED BY <2>1
  <1>3. NumbersInv
    BY DEF TurnInv
  <1>4. /\ \A t \in spoken' : t \in spoken \/ \E d \in LocalChats : t = begun[d] /\ t # 0
        /\ \A t \in SentTurns :
             \/ ended'[t] = ended[t]
             \/ /\ \E d \in LocalChats : t = begun[d]
                /\ writeFailures' = 0 => ended'[t] <= 1
    OBVIOUS
  <1>5. NumbersInv'
    BY <1>2, <1>3, <1>4, NumbersStay
  <1> QED BY <1>1, <1>5 DEF TurnInv

(* What a write of the end of a generation makes of the files.             *)
LEMMA EndIsWritten ==
  ASSUME ChatInv, TurnInv, NEW c \in LocalChats, gen[c].step # "none", EndWritten(c)
  PROVE  /\ begun[c] \in SentTurns /\ gen[c].turn = begun[c]
         /\ \A t \in SentTurns \ {begun[c]} : stored'[t] = stored[t] /\ ended'[t] = ended[t]
         /\ stored'[begun[c]] = stored[begun[c]] + (IF gen[c].step = "saving" THEN 1 ELSE 0)
         /\ ended'[begun[c]] = ended[begun[c]] + (IF gen[c].step = "ending" THEN 1 ELSE 0)
         /\ stored[begun[c]] \in Nat /\ ended[begun[c]] \in Nat
         /\ \A d \in LocalChats \ {c} : manifest'[d] = manifest[d]
         /\ manifest'[c].pending = manifest[c].pending
         /\ manifest'[c].turn = IF gen[c].step = "clearing" THEN 0 ELSE manifest[c].turn
  <1>1. /\ begun[c] \in SentTurns /\ gen[c].turn = begun[c] /\ manifest[c].turn \in {0, begun[c]}
    BY Own DEF TurnFits
  <1>2. /\ manifest \in [LocalChats -> [turn : Nat, pending : BOOLEAN, text : BOOLEAN]]
        /\ stored \in [SentTurns -> Nat] /\ ended \in [SentTurns -> Nat]
    BY DEF ChatInv, FileTypes
  <1>3. /\ \A t \in SentTurns \ {begun[c]} : stored'[t] = stored[t]
        /\ stored'[begun[c]] = stored[begun[c]] + (IF gen[c].step = "saving" THEN 1 ELSE 0)
    <2> DEFINE v == IF gen[c].step = "saving" THEN stored[begun[c]] + 1 ELSE stored[begun[c]]
    <2>1. stored' = [stored EXCEPT ![begun[c]] = v]
      BY <1>1 DEF EndWritten, AnswerStored
    <2>2. v = stored[begun[c]] + (IF gen[c].step = "saving" THEN 1 ELSE 0)
      BY <1>1, <1>2
    <2> HIDE DEF v
    <2> QED BY <1>1, <1>2, <2>1, <2>2
  <1>4. /\ \A t \in SentTurns \ {begun[c]} : ended'[t] = ended[t]
        /\ ended'[begun[c]] = ended[begun[c]] + (IF gen[c].step = "ending" THEN 1 ELSE 0)
    <2> DEFINE v == IF gen[c].step = "ending" THEN ended[begun[c]] + 1 ELSE ended[begun[c]]
    <2>1. ended' = [ended EXCEPT ![begun[c]] = v]
      BY <1>1 DEF EndWritten, TerminalStored
    <2>2. v = ended[begun[c]] + (IF gen[c].step = "ending" THEN 1 ELSE 0)
      BY <1>1, <1>2
    <2> HIDE DEF v
    <2> QED BY <1>1, <1>2, <2>1, <2>2
  <1>5. /\ \A d \in LocalChats \ {c} : manifest'[d] = manifest[d]
        /\ manifest'[c].pending = manifest[c].pending
        /\ manifest'[c].turn = IF gen[c].step = "clearing" THEN 0 ELSE manifest[c].turn
    <2> DEFINE m == IF gen[c].step = "clearing" /\ manifest[c].turn = gen[c].turn
                    THEN [manifest[c] EXCEPT !.turn = 0, !.text = FALSE] ELSE manifest[c]
    <2>1. manifest' = [manifest EXCEPT ![c] = m]
      BY DEF EndWritten, TurnCleared
    <2>2. /\ m.pending = manifest[c].pending
          /\ m.turn = IF gen[c].step = "clearing" THEN 0 ELSE manifest[c].turn
      BY <1>1, <1>2
    <2> HIDE DEF m
    <2> QED BY <1>2, <2>1, <2>2
  <1> QED BY <1>1, <1>2, <1>3, <1>4, <1>5

(* The commands of all chats, and the generations of the others, when one  *)
(* generation takes a step.                                                *)
LEMMA GenerationFrame ==
  ASSUME ChatInv, NEW c \in LocalChats,
         \/ Says(c) \/ Checkpoints(c) \/ Answers(c) \/ Breaks(c) \/ Asks(c)
         \/ GenerationNext(c) \/ WriteFailsIn(c)
  PROVE  /\ gen[c].step # "none"
         /\ \A d \in LocalChats : /\ Moved(command[d], command'[d])
                                 /\ Stays(command[d], command'[d])
                                 /\ command'[d].kind = command[d].kind
                                 /\ command'[d].turn = command[d].turn
         /\ \A d \in LocalChats \ {c} : GenStays(gen[d], gen'[d])
         /\ recovery' = recovery
  <1>1. /\ \A d \in LocalChats : Moved(command[d], command'[d])
        /\ \A d \in LocalChats \ {c} : gen'[d] = gen[d]
        /\ gen[c].step # "none" /\ UNCHANGED ChatLife
    <2>1. CASE gen[c].step # "none" /\ GenerationEnds(c) /\ UNCHANGED ChatLife
      BY <2>1, GenerationEndIsCounted DEF ChatInv, GateTypes
    <2>2. ASSUME NEW g \in GenerationType, GoesOn(c, g)
          PROVE  /\ \A d \in LocalChats : Moved(command[d], command'[d])
                 /\ \A d \in LocalChats \ {c} : gen'[d] = gen[d]
                 /\ gen[c].step # "none" /\ UNCHANGED ChatLife
      BY <2>2 DEF GoesOn, Moved, ChatInv, GateTypes
    <2> QED BY <2>1, <2>2, GenerationShape
  <1>2. \A d \in LocalChats : command[d] \in CommandType
    BY DEF ChatInv, GateTypes
  <1> QED BY <1>1, <1>2, MovedStays DEF GenStays, ChatLife

(* A generation steps, and the files keep what they have: the new step of  *)
(* its chat is all that has to fit.                                        *)
LEMMA GenerationFits ==
  ASSUME ChatInv, FileTypes', TurnInv, NEW c \in LocalChats,
         \/ Says(c) \/ Checkpoints(c) \/ Answers(c) \/ Breaks(c) \/ Asks(c)
         \/ GenerationNext(c) \/ WriteFailsIn(c),
         begun' = begun,
         \A d \in LocalChats \ {c} : manifest'[d] = manifest[d] /\ checkpoint'[d] = checkpoint[d],
         \A t \in spoken' : t \in spoken \/ t = begun[c],
         \A t \in SentTurns :
           /\ stored[t] > 0 => stored'[t] > 0
           /\ \/ ended'[t] = ended[t]
              \/ t = begun[c] /\ (writeFailures' = 0 => ended'[t] <= 1),
         writeFailures' = 0 => writeFailures = 0,
         ChatFits(c)'
  PROVE  TurnInv'
  <1>1. /\ ended' \in [SentTurns -> Nat]
        /\ begun[c] # 0
    BY GenerationFrame, Own DEF FileTypes, TurnFits
  <1>2. /\ \A d \in LocalChats \ {c} : Moved(command[d], command'[d]) /\ GenStays(gen[d], gen'[d])
        /\ command'[c].kind = command[c].kind /\ command'[c].turn = command[c].turn
        /\ recovery' = recovery
    BY GenerationFrame
  <1> QED BY <1>1, <1>2, StepFits

(* What stays true of the chat of a generation: no command of it is left   *)
(* that could have begun a turn or, until a write fails, resolved an       *)
(* action.                                                                 *)
LEMMA GenerationAlone ==
  ASSUME ChatInv, TurnInv, NEW c \in LocalChats,
         \/ Says(c) \/ Checkpoints(c) \/ Answers(c) \/ Breaks(c) \/ Asks(c)
         \/ GenerationNext(c) \/ WriteFailsIn(c)
  PROVE  /\ command'[c].kind # "send" /\ command'[c].step # "begun"
         /\ command'[c].step \in {"executing", "resuming"} =>
              /\ command'[c].turn = begun[c] /\ command[c].step = command'[c].step
              /\ writeFailures = 0 => gen[c].step = "pausing"
         /\ recovery'[c] = "done" /\ begun[c] \in SentTurns
         /\ manifest[c].turn \in {0, begun[c]}
         /\ gen[c].turn = begun[c] /\ begun[c] # 0
  <1>1. /\ gen[c].step # "none" /\ Stays(command[c], command'[c])
        /\ command'[c].kind = command[c].kind /\ command'[c].turn = command[c].turn
        /\ recovery' = recovery
    BY GenerationFrame
  <1>2. /\ TurnFits(c) /\ EndedFor(c) /\ CommandFits(command[c], gen[c])
        /\ begun[c] \in SentTurns \cup {0} /\ recovery[c] = "done"
    BY <1>1, Own
  <1>3. /\ gen[c].turn = begun[c] /\ begun[c] # 0 /\ manifest[c].turn \in {0, begun[c]}
        /\ command[c].kind # "send" /\ command[c].step # "begun"
    BY <1>1, <1>2 DEF TurnFits, CommandFits
  <1>4. writeFailures = 0 /\ command[c].step \in {"executing", "resuming"} =>
          gen[c].step = "pausing"
    BY <1>1, <1>2 DEF EndedFor, OnceFor
  <1>5. command'[c].step \in {"begun", "executing", "resuming"} =>
          command'[c].step = command[c].step
    BY <1>1 DEF Stays
  <1> QED BY <1>1, <1>2, <1>3, <1>4, <1>5 DEF TurnFits

(* A generation that is over, or goes on as before, with the files as they *)
(* are.                                                                    *)
LEMMA GenerationStays ==
  ASSUME ChatInv, TurnInv, NEW c \in LocalChats,
         \/ Says(c) \/ Checkpoints(c) \/ Answers(c) \/ Breaks(c) \/ Asks(c)
         \/ GenerationNext(c) \/ WriteFailsIn(c),
         UNCHANGED <<ChatFiles, begun, spoken, writeFailures>>,
         GenStays(gen[c], gen'[c])
  PROVE  TurnInv'
  <1>1. \A d \in LocalChats : GenStays(gen[d], gen'[d])
    BY GenerationFrame
  <1>2. \A d \in LocalChats : /\ Stays(command[d], command'[d])
                             /\ command'[d].kind = command[d].kind
                             /\ command'[d].turn = command[d].turn
    BY GenerationFrame
  <1>3. recovery' = recovery
    BY GenerationFrame
  <1> QED BY <1>1, <1>2, <1>3, AllStay

LEMMA SaysStay ==
  ASSUME ChatInv, TurnInv, NEW c \in LocalChats, Says(c)
  PROVE  TurnInv'
  <1>1. GenStays(gen[c], gen'[c])
    BY DEF Says, GenStays, ChatInv, GateTypes, GenerationType
  <1>2. UNCHANGED <<ChatFiles, begun, spoken, writeFailures>>
    BY DEF Says, ChatHistory
  <1> QED BY <1>1, <1>2, GenerationStays

LEMMA CheckpointsStay ==
  ASSUME ChatInv, FileTypes', TurnInv, NEW c \in LocalChats, Checkpoints(c)
  PROVE  TurnInv'
  <1>1. /\ TurnFits(c) /\ KeptFor(c) /\ EndedFor(c) /\ gen[c].turn = begun[c]
        /\ recovery'[c] = "done" /\ gen[c].step = "running"
    BY Own, GenerationAlone DEF Checkpoints
  <1>2. /\ checkpoint'[c] = begun[c] /\ spoken' = spoken \cup {begun[c]}
        /\ \A d \in LocalChats \ {c} : checkpoint'[d] = checkpoint[d]
        /\ manifest' = manifest /\ stored' = stored /\ ended' = ended /\ begun' = begun
        /\ command' = command /\ gen' = gen /\ writeFailures' = writeFailures
        /\ recovery' = recovery
    BY <1>1 DEF Checkpoints, ChatLife, ChatInv, FileTypes
  <1>3. TurnFits(c)' /\ EndedFor(c)'
    BY <1>1, <1>2 DEF TurnFits, EndedFor, OnceFor
  <1>4. KeptFor(c)'
    BY <1>1, <1>2 DEF KeptFor
  <1> QED BY <1>2, <1>3, <1>4, GenerationFits DEF ChatFits

(* A generation that has its answer, or an error, goes on to write its end.*)
GoesToItsEnd(c) ==
  /\ gen[c].step = "running" /\ gen'[c].step \in {"saving", "ending"}
  /\ gen'[c].turn = gen[c].turn

LEMMA WritesItsEnd ==
  ASSUME ChatInv, FileTypes', TurnInv, NEW c \in LocalChats, Answers(c) \/ Breaks(c),
         GoesToItsEnd(c)
  PROVE  TurnInv'
  <1>1. /\ manifest' = manifest /\ checkpoint' = checkpoint /\ stored' = stored
        /\ ended' = ended /\ begun' = begun /\ spoken' = spoken
        /\ writeFailures' = writeFailures
    BY DEF Answers, Breaks, ChatFiles, ChatHistory
  <1>2. TurnFits(c) /\ KeptFor(c) /\ EndedFor(c)
    BY Own
  <1>3. /\ command'[c].kind # "send" /\ command'[c].step # "begun"
        /\ command'[c].step \in {"executing", "resuming"} =>
             command'[c].turn = begun[c] /\ (writeFailures = 0 => gen[c].step = "pausing")
        /\ recovery'[c] = "done" /\ manifest[c].turn \in {0, begun[c]}
        /\ gen[c].turn = begun[c] /\ begun[c] # 0
    BY GenerationAlone
  <1>4. TurnFits(c)'
    BY <1>1, <1>3 DEF TurnFits, GoesToItsEnd
  <1>5. KeptFor(c)'
    BY <1>1, <1>2, <1>3 DEF KeptFor, GoesToItsEnd
  <1>6. EndedFor(c)'
    BY <1>1, <1>2, <1>3 DEF EndedFor, OnceFor, GoesToItsEnd
  <1> QED BY <1>1, <1>4, <1>5, <1>6, GenerationFits DEF ChatFits

LEMMA AnswersStay ==
  ASSUME ChatInv, FileTypes', TurnInv, NEW c \in LocalChats, Answers(c)
  PROVE  TurnInv'
  <1>1. GoesToItsEnd(c)
    BY DEF Answers, GoesToItsEnd, ChatInv, GateTypes, GenerationType
  <1> QED BY <1>1, WritesItsEnd

LEMMA BreaksStay ==
  ASSUME ChatInv, FileTypes', TurnInv, NEW c \in LocalChats, Breaks(c)
  PROVE  TurnInv'
  <1>1. /\ Throws(c) /\ gen[c].step = "running" /\ UNCHANGED ChatLife
        /\ UNCHANGED <<ChatFiles, begun, spoken, writeFailures>>
        /\ gen \in [LocalChats -> GenerationType]
    BY DEF Breaks, ChatHistory, ChatInv, GateTypes
  <1>2. CASE GenerationEnds(c)
    <2>1. GenStays(gen[c], gen'[c])
      BY <1>1, <1>2 DEF GenerationEnds, GenStays, NoGeneration
    <2> QED BY <1>1, <2>1, GenerationStays
  <1>3. ASSUME NEW step \in {"saving", "ending"},
               gen' = [gen EXCEPT ![c] = [gen[c] EXCEPT !.caught = TRUE, !.step = step]]
        PROVE  TurnInv'
    <2>1. GoesToItsEnd(c)
      BY <1>1, <1>3 DEF GoesToItsEnd, GenerationType
    <2> QED BY <2>1, WritesItsEnd
  <1> QED BY <1>1, <1>2, <1>3, ThrowsShape

LEMMA AsksStay ==
  ASSUME ChatInv, FileTypes', TurnInv, NEW c \in LocalChats, Asks(c)
  PROVE  TurnInv'
  <1>1. /\ checkpoint' = checkpoint /\ stored' = stored /\ ended' = ended /\ begun' = begun
        /\ spoken' = spoken /\ writeFailures' = writeFailures
        /\ \A d \in LocalChats \ {c} : manifest'[d] = manifest[d]
        /\ manifest'[c].turn = manifest[c].turn /\ gen[c].step = "running"
    BY DEF Asks, ChatHistory, ChatInv, FileTypes
  <1>2. TurnFits(c) /\ KeptFor(c) /\ EndedFor(c)
    BY Own
  <1>3. /\ command'[c].kind # "send" /\ command'[c].step # "begun"
        /\ command'[c].step \in {"executing", "resuming"} =>
             command'[c].turn = begun[c] /\ (writeFailures = 0 => gen[c].step = "pausing")
        /\ recovery'[c] = "done" /\ manifest[c].turn \in {0, begun[c]}
        /\ gen[c].turn = begun[c] /\ begun[c] # 0
    BY GenerationAlone
  <1>4. \/ gen'[c].step = "none"
        \/ /\ gen'[c].step = "pausing" /\ gen'[c].turn = gen[c].turn
           /\ gen'[c].caught = gen[c].caught
    BY DEF Asks, GenerationEnds, NoGeneration, ChatInv, GateTypes, GenerationType
  <1>5. TurnFits(c)'
    BY <1>1, <1>3, <1>4 DEF TurnFits
  <1>6. KeptFor(c)'
    BY <1>1, <1>2, <1>3, <1>4 DEF KeptFor
  <1>7. EndedFor(c)'
    BY <1>1, <1>2, <1>3, <1>4 DEF EndedFor, OnceFor
  <1> QED BY <1>1, <1>5, <1>6, <1>7, GenerationFits DEF ChatFits

(* The message, and the event that ends the turn.                          *)
LEMMA WritesStay ==
  ASSUME ChatInv, FileTypes', TurnInv, NEW c \in LocalChats, Writes(c)
  PROVE  TurnInv'
  <1>1. /\ checkpoint' = checkpoint /\ begun' = begun /\ spoken' = spoken
        /\ writeFailures' = writeFailures /\ EndWritten(c)
        /\ gen[c].step \in {"saving", "ending"}
    BY DEF Writes, AfterWrite, ChatHistory
  <1>2. TurnFits(c) /\ KeptFor(c) /\ EndedFor(c)
    BY Own
  <1>3. /\ command'[c].kind # "send" /\ command'[c].step # "begun"
        /\ command'[c].step \in {"executing", "resuming"} =>
             command'[c].turn = begun[c] /\ (writeFailures = 0 => gen[c].step = "pausing")
        /\ recovery'[c] = "done" /\ manifest[c].turn \in {0, begun[c]}
        /\ gen[c].turn = begun[c] /\ begun[c] # 0
    BY GenerationAlone DEF GenerationNext
  <1>4. /\ gen'[c].turn = gen[c].turn
        /\ gen[c].step = "saving" => gen'[c].step = "unlinking"
        /\ gen[c].step = "ending" => gen'[c].step = "clearing"
    <2>1. AfterWrite["saving"] = "unlinking" /\ AfterWrite["ending"] = "clearing"
      BY DEF AfterWrite
    <2>2. gen' = [gen EXCEPT ![c].step = AfterWrite[gen[c].step]]
      BY DEF Writes
    <2> QED BY <1>1, <2>1, <2>2 DEF ChatInv, GateTypes, GenerationType
  <1>5. /\ begun[c] \in SentTurns
        /\ \A t \in SentTurns \ {begun[c]} : stored'[t] = stored[t] /\ ended'[t] = ended[t]
        /\ stored[begun[c]] \in Nat /\ ended[begun[c]] \in Nat
        /\ gen[c].step = "saving" => /\ stored'[begun[c]] = stored[begun[c]] + 1
                                     /\ ended'[begun[c]] = ended[begun[c]]
        /\ gen[c].step = "ending" => /\ stored'[begun[c]] = stored[begun[c]]
                                     /\ ended'[begun[c]] = ended[begun[c]] + 1
        /\ \A d \in LocalChats \ {c} : manifest'[d] = manifest[d]
        /\ manifest'[c].pending = manifest[c].pending /\ manifest'[c].turn = manifest[c].turn
    BY <1>1, EndIsWritten
  <1>6. TurnFits(c)'
    BY <1>1, <1>3, <1>4, <1>5 DEF TurnFits
  <1>7. KeptFor(c)'
    BY <1>1, <1>2, <1>3, <1>4, <1>5 DEF KeptFor
  <1>8. writeFailures = 0 => /\ ended[begun[c]] = 0 /\ ~manifest[c].pending
                             /\ command'[c].step \notin {"executing", "resuming"}
    BY <1>1, <1>2, <1>3 DEF EndedFor, OnceFor
  <1>9. EndedFor(c)'
    <2>1. begun[c] \notin {0, manifest'[c].turn} => ended'[begun[c]] > 0
      BY <1>1, <1>2, <1>5 DEF EndedFor
    <2>2. gen'[c].step = "clearing" => ended'[begun[c]] > 0
      BY <1>1, <1>4, <1>5
    <2>3. writeFailures = 0 => OnceFor(c)'
      BY <1>1, <1>3, <1>4, <1>5, <1>8 DEF OnceFor
    <2> QED BY <1>1, <1>3, <2>1, <2>2, <2>3 DEF EndedFor
  <1>10. \A t \in SentTurns : /\ stored[t] > 0 => stored'[t] > 0
                              /\ \/ ended'[t] = ended[t]
                                 \/ t = begun[c] /\ (writeFailures' = 0 => ended'[t] <= 1)
    BY <1>1, <1>5, <1>8
  <1> QED BY <1>1, <1>5, <1>6, <1>7, <1>9, <1>10, GenerationFits DEF ChatFits, GenerationNext

(* The checkpoint goes once the message is there.                          *)
LEMMA UnlinksStay ==
  ASSUME ChatInv, FileTypes', TurnInv, NEW c \in LocalChats, Unlinks(c)
  PROVE  TurnInv'
  <1>1. /\ manifest' = manifest /\ stored' = stored /\ ended' = ended /\ begun' = begun
        /\ spoken' = spoken /\ writeFailures' = writeFailures
        /\ \A d \in LocalChats \ {c} : checkpoint'[d] = checkpoint[d]
        /\ gen[c].step = "unlinking" /\ gen'[c].step = "ending" /\ gen'[c].turn = gen[c].turn
    BY DEF Unlinks, ChatHistory, ChatInv, FileTypes, GateTypes, GenerationType
  <1>2. TurnFits(c) /\ KeptFor(c) /\ EndedFor(c)
    BY Own
  <1>3. /\ command'[c].kind # "send" /\ command'[c].step # "begun"
        /\ command'[c].step \in {"executing", "resuming"} =>
             command'[c].turn = begun[c] /\ (writeFailures = 0 => gen[c].step = "pausing")
        /\ recovery'[c] = "done" /\ manifest[c].turn \in {0, begun[c]}
        /\ gen[c].turn = begun[c] /\ begun[c] # 0
    BY GenerationAlone DEF GenerationNext
  <1>4. TurnFits(c)'
    BY <1>1, <1>3 DEF TurnFits
  <1>5. KeptFor(c)'
    BY <1>1, <1>2, <1>3 DEF KeptFor
  <1>6. EndedFor(c)'
    BY <1>1, <1>2, <1>3 DEF EndedFor, OnceFor
  <1> QED BY <1>1, <1>4, <1>5, <1>6, GenerationFits DEF ChatFits, GenerationNext

(* The manifest is cleared, or the generation stops for an action.         *)
LEMMA FinishesStay ==
  ASSUME ChatInv, FileTypes', TurnInv, NEW c \in LocalChats, Finishes(c)
  PROVE  TurnInv'
  <1>1. /\ checkpoint' = checkpoint /\ begun' = begun /\ spoken' = spoken
        /\ writeFailures' = writeFailures /\ EndWritten(c)
        /\ gen[c].step \in {"clearing", "pausing"}
    BY DEF Finishes, ChatHistory
  <1>2. TurnFits(c) /\ KeptFor(c) /\ EndedFor(c)
    BY Own
  <1>3. /\ command'[c].kind # "send" /\ command'[c].step # "begun"
        /\ command'[c].step \in {"executing", "resuming"} =>
             /\ command'[c].turn = begun[c] /\ command[c].step = command'[c].step
             /\ writeFailures = 0 => gen[c].step = "pausing"
        /\ recovery'[c] = "done" /\ manifest[c].turn \in {0, begun[c]}
        /\ gen[c].turn = begun[c] /\ begun[c] # 0
    BY GenerationAlone DEF GenerationNext
  <1>4. gen'[c].step = "none"
    BY DEF Finishes, GenerationEnds, NoGeneration, ChatInv, GateTypes
  <1>5. /\ begun[c] \in SentTurns
        /\ \A t \in SentTurns \ {begun[c]} : stored'[t] = stored[t] /\ ended'[t] = ended[t]
        /\ stored[begun[c]] \in Nat /\ ended[begun[c]] \in Nat
        /\ stored'[begun[c]] = stored[begun[c]] /\ ended'[begun[c]] = ended[begun[c]]
        /\ \A d \in LocalChats \ {c} : manifest'[d] = manifest[d]
        /\ manifest'[c].pending = manifest[c].pending
        /\ manifest'[c].turn = IF gen[c].step = "clearing" THEN 0 ELSE manifest[c].turn
    BY <1>1, EndIsWritten
  <1>6. TurnFits(c)'
    BY <1>1, <1>3, <1>4, <1>5 DEF TurnFits
  <1>7. KeptFor(c)'
    BY <1>1, <1>2, <1>3, <1>4, <1>5 DEF KeptFor
  <1>8. EndedFor(c)'
    BY <1>1, <1>2, <1>3, <1>4, <1>5 DEF EndedFor, OnceFor
  <1>9. \A t \in SentTurns : stored'[t] = stored[t] /\ ended'[t] = ended[t]
    BY <1>5
  <1> QED BY <1>1, <1>5, <1>6, <1>7, <1>8, <1>9, GenerationFits DEF ChatFits, GenerationNext

(* A write that fails, done or not: the end goes on, or is over.           *)
LEMMA WriteFailuresStay ==
  ASSUME ChatInv, FileTypes', TurnInv, NEW c \in LocalChats, WriteFailsIn(c)
  PROVE  TurnInv'
  <1>1. /\ checkpoint' = checkpoint /\ begun' = begun /\ spoken' = spoken
        /\ writeFailures' # 0
        /\ gen[c].step \in {"saving", "ending", "clearing", "pausing"}
    BY DEF WriteFailsIn, ChatHistory, ChatInv, FileTypes
  <1>2. TurnFits(c) /\ KeptFor(c) /\ EndedFor(c)
    BY Own
  <1>3. /\ command'[c].kind # "send" /\ command'[c].step # "begun"
        /\ command'[c].step \in {"executing", "resuming"} => command'[c].turn = begun[c]
        /\ recovery'[c] = "done" /\ manifest[c].turn \in {0, begun[c]}
        /\ gen[c].turn = begun[c] /\ begun[c] # 0
    BY GenerationAlone
  <1>4. \/ gen'[c].step = "none"
        \/ gen'[c].step \in {"saving", "ending"} /\ gen'[c].turn = gen[c].turn
    <2>1. gen[c].step # "none" /\ Throws(c) /\ gen \in [LocalChats -> GenerationType]
      BY DEF WriteFailsIn, ChatInv, GateTypes
    <2>2. CASE GenerationEnds(c)
      BY <2>1, <2>2 DEF GenerationEnds, NoGeneration
    <2>3. ASSUME NEW step \in {"saving", "ending"},
                 gen' = [gen EXCEPT ![c] = [gen[c] EXCEPT !.caught = TRUE, !.step = step]]
          PROVE  gen'[c].step \in {"saving", "ending"} /\ gen'[c].turn = gen[c].turn
      BY <2>1, <2>3 DEF GenerationType
    <2> QED BY <2>1, <2>2, <2>3, ThrowsShape
  <1>5. /\ \A t \in SentTurns : stored[t] > 0 => stored'[t] > 0
        /\ \A t \in SentTurns : ended'[t] = ended[t] \/ t = begun[c]
        /\ begun[c] \in SentTurns
        /\ stored[begun[c]] \in Nat /\ ended[begun[c]] \in Nat
        /\ ended[begun[c]] > 0 => ended'[begun[c]] > 0
        /\ \A d \in LocalChats \ {c} : manifest'[d] = manifest[d]
        /\ manifest'[c].turn = IF gen[c].step = "clearing" /\ EndWritten(c)
                               THEN 0 ELSE manifest[c].turn
    <2>1. CASE EndWritten(c)
      <3>1. /\ begun[c] \in SentTurns
            /\ \A t \in SentTurns \ {begun[c]} : stored'[t] = stored[t] /\ ended'[t] = ended[t]
            /\ stored'[begun[c]] = stored[begun[c]] + (IF gen[c].step = "saving" THEN 1 ELSE 0)
            /\ ended'[begun[c]] = ended[begun[c]] + (IF gen[c].step = "ending" THEN 1 ELSE 0)
            /\ stored[begun[c]] \in Nat /\ ended[begun[c]] \in Nat
            /\ \A d \in LocalChats \ {c} : manifest'[d] = manifest[d]
            /\ manifest'[c].turn = IF gen[c].step = "clearing" THEN 0 ELSE manifest[c].turn
        BY <1>1, <2>1, EndIsWritten
      <3> QED BY <2>1, <3>1
    <2>2. CASE ~EndWritten(c)
      <3>1. manifest' = manifest /\ stored' = stored /\ ended' = ended
        BY <2>2 DEF WriteFailsIn
      <3>2. begun[c] \in SentTurns
        BY GenerationAlone
      <3> QED BY <2>2, <3>1, <3>2 DEF ChatInv, FileTypes
    <2> QED BY <2>1, <2>2
  <1>6. manifest'[c].turn \in {0, begun[c]}
    BY <1>3, <1>5
  <1>7. TurnFits(c)'
    BY <1>1, <1>3, <1>4, <1>6 DEF TurnFits
  <1>8. KeptFor(c)'
    BY <1>1, <1>2, <1>3, <1>4, <1>5 DEF KeptFor
  <1>9. EndedFor(c)'
    BY <1>1, <1>2, <1>3, <1>4, <1>5 DEF EndedFor
  <1> QED BY <1>1, <1>5, <1>7, <1>8, <1>9, GenerationFits DEF ChatFits

(* The recovery of a chat, while no command and no generation exists.      *)
LEMMA RecoveryFrame ==
  ASSUME ChatInv, TurnInv, NEW c \in LocalChats,
         RecoversText(c) \/ RecoveryUnlinks(c) \/ RecoversTurn(c) \/ RecoveryClears(c)
  PROVE  /\ command' = command /\ gen' = gen /\ begun' = begun /\ spoken' = spoken
         /\ writeFailures' = writeFailures
         /\ command[c].step = "none" /\ command[c].kind = "none" /\ gen[c].step = "none"
         /\ \A d \in LocalChats \ {c} : Moved(command[d], command'[d]) /\ GenStays(gen[d], gen'[d])
         /\ \A d \in LocalChats \ {c} : recovery'[d] = recovery[d]
         /\ TurnFits(c) /\ KeptFor(c) /\ EndedFor(c)
         /\ begun[c] \in SentTurns \cup {0} /\ 0 \notin spoken
  <1>1. /\ command' = command /\ gen' = gen /\ begun' = begun /\ spoken' = spoken
        /\ writeFailures' = writeFailures /\ recovery[c] # "done"
        /\ \E step \in {"unlink", "turn", "clear", "done"} : recovery' = [recovery EXCEPT ![c] = step]
    BY DEF RecoversText, RecoveryUnlinks, RecoversTurn, RecoveryClears, ChatHistory
  <1>2. command[c].step = "none" /\ gen[c].step = "none" /\ command[c].kind = "none"
    <2>1. chatService = "recovering" /\ GateTypes
      BY <1>1 DEF ChatInv, PhaseInv
    <2>2. command[c].step = "none" /\ gen[c].step = "none"
      BY <2>1 DEF ChatInv, PhaseInv
    <2>3. command[c] = NoCommand
      BY <2>2 DEF ChatInv, CommandInv, CommandFits
    <2> QED BY <2>2, <2>3, NothingIsReserved
  <1> QED BY <1>1, <1>2, Own DEF Moved, GenStays

LEMMA TextRecovered ==
  ASSUME ChatInv, FileTypes', TurnInv, NEW c \in LocalChats, RecoversText(c)
  PROVE  TurnInv'
  <1>1. /\ manifest' = manifest /\ checkpoint' = checkpoint /\ ended' = ended
        /\ recovery'[c] = "unlink"
        /\ \A t \in SentTurns :
             stored'[t] = IF t = checkpoint[c] /\ stored[t] = 0 THEN 1 ELSE stored[t]
    BY DEF RecoversText, ChatInv, GateTypes
  <1>2. /\ command' = command /\ gen' = gen /\ begun' = begun /\ spoken' = spoken
        /\ writeFailures' = writeFailures
        /\ command[c].step = "none" /\ command[c].kind = "none" /\ gen[c].step = "none"
        /\ \A d \in LocalChats \ {c} : Moved(command[d], command'[d]) /\ GenStays(gen[d], gen'[d])
        /\ \A d \in LocalChats \ {c} : recovery'[d] = recovery[d]
        /\ TurnFits(c) /\ KeptFor(c) /\ EndedFor(c)
        /\ begun[c] \in SentTurns \cup {0} /\ 0 \notin spoken
    BY RecoveryFrame
  <1>3. \A t \in SentTurns : stored[t] \in Nat /\ (stored[t] > 0 => stored'[t] > 0)
    BY <1>1 DEF ChatInv, FileTypes
  <1>4. TurnFits(c)' /\ EndedFor(c)'
    BY <1>1, <1>2 DEF TurnFits, EndedFor, OnceFor
  <1>5. KeptFor(c)'
    <2>1. ASSUME begun[c] \in spoken
          PROVE  stored'[begun[c]] > 0
      BY <1>1, <1>2, <1>3, <2>1 DEF KeptFor
    <2> QED BY <1>2, <2>1 DEF KeptFor
  <1>6. ended' \in [SentTurns -> Nat]
    BY DEF FileTypes
  <1> QED BY <1>1, <1>2, <1>3, <1>4, <1>5, <1>6, StepFits DEF ChatFits

LEMMA CheckpointRecovered ==
  ASSUME ChatInv, FileTypes', TurnInv, NEW c \in LocalChats, RecoveryUnlinks(c)
  PROVE  TurnInv'
  <1>1. /\ manifest' = manifest /\ stored' = stored /\ ended' = ended
        /\ recovery[c] = "unlink" /\ recovery'[c] = "turn"
        /\ \A d \in LocalChats \ {c} : checkpoint'[d] = checkpoint[d]
    BY DEF RecoveryUnlinks, ChatInv, FileTypes, GateTypes
  <1>2. /\ command' = command /\ gen' = gen /\ begun' = begun /\ spoken' = spoken
        /\ writeFailures' = writeFailures
        /\ command[c].step = "none" /\ command[c].kind = "none" /\ gen[c].step = "none"
        /\ \A d \in LocalChats \ {c} : Moved(command[d], command'[d]) /\ GenStays(gen[d], gen'[d])
        /\ \A d \in LocalChats \ {c} : recovery'[d] = recovery[d]
        /\ TurnFits(c) /\ KeptFor(c) /\ EndedFor(c)
    BY RecoveryFrame
  <1>3. TurnFits(c)' /\ EndedFor(c)'
    BY <1>1, <1>2 DEF TurnFits, EndedFor, OnceFor
  <1>4. KeptFor(c)'
    BY <1>1, <1>2 DEF KeptFor
  <1>5. ended' \in [SentTurns -> Nat]
    BY DEF FileTypes
  <1> QED BY <1>1, <1>2, <1>3, <1>4, <1>5, StepFits DEF ChatFits

LEMMA TurnRecovered ==
  ASSUME ChatInv, FileTypes', TurnInv, NEW c \in LocalChats, RecoversTurn(c)
  PROVE  TurnInv'
  <1>1. manifest' = manifest /\ checkpoint' = checkpoint /\ stored' = stored
    BY DEF RecoversTurn
  <1>2. /\ command' = command /\ gen' = gen /\ begun' = begun /\ spoken' = spoken
        /\ writeFailures' = writeFailures
        /\ command[c].step = "none" /\ command[c].kind = "none" /\ gen[c].step = "none"
        /\ \A d \in LocalChats \ {c} : Moved(command[d], command'[d]) /\ GenStays(gen[d], gen'[d])
        /\ \A d \in LocalChats \ {c} : recovery'[d] = recovery[d]
        /\ TurnFits(c) /\ KeptFor(c) /\ EndedFor(c)
        /\ begun[c] \in SentTurns \cup {0}
    BY RecoveryFrame
  <1>3. ended \in [SentTurns -> Nat] /\ ended' \in [SentTurns -> Nat]
    BY DEF ChatInv, FileTypes
  <1>4. TurnFits(c)'
    BY <1>1, <1>2 DEF TurnFits
  <1>5. recovery'[c] \in {"done", "clear"}
    BY DEF RecoversTurn, ChatInv, GateTypes
  <1>6. KeptFor(c)'
    BY <1>1, <1>2, <1>5 DEF KeptFor
  <1>7. CASE manifest[c].turn = 0 \/ manifest[c].pending
    <2>1. ended' = ended /\ recovery'[c] = "done"
      BY <1>7 DEF RecoversTurn, ChatInv, GateTypes
    <2>2. EndedFor(c)'
      BY <1>1, <1>2, <2>1 DEF EndedFor, OnceFor
    <2> QED BY <1>1, <1>2, <1>3, <1>4, <1>6, <2>1, <2>2, StepFits DEF ChatFits
  <1>8. CASE manifest[c].turn # 0 /\ ~manifest[c].pending
    <2>1. /\ begun[c] # 0 /\ manifest[c].turn = begun[c] /\ begun[c] \in SentTurns
      BY <1>2, <1>8 DEF TurnFits
    <2>2. /\ ended'[begun[c]] = ended[begun[c]] + EndedOnce(begun[c])
          /\ \A t \in SentTurns \ {begun[c]} : ended'[t] = ended[t]
      BY <1>3, <1>8, <2>1 DEF RecoversTurn
    <2>3. /\ ended'[begun[c]] > 0
          /\ writeFailures = 0 => ended'[begun[c]] <= 1
      <3>1. writeFailures = 0 => ended[begun[c]] <= 1
        BY <2>1 DEF TurnInv, NumbersInv
      <3> QED BY <1>3, <2>1, <2>2, <3>1 DEF EndedOnce
    <2>4. EndedFor(c)'
      BY <1>1, <1>2, <1>8, <2>1, <2>3 DEF EndedFor, OnceFor
    <2>5. \A t \in SentTurns : \/ ended'[t] = ended[t]
                               \/ t = begun[c] /\ (writeFailures' = 0 => ended'[t] <= 1)
      BY <1>2, <2>2, <2>3
    <2> QED BY <1>1, <1>2, <1>3, <1>4, <1>6, <2>4, <2>5, StepFits DEF ChatFits
  <1> QED BY <1>7, <1>8

LEMMA ManifestRecovered ==
  ASSUME ChatInv, FileTypes', TurnInv, NEW c \in LocalChats, RecoveryClears(c)
  PROVE  TurnInv'
  <1>1. /\ checkpoint' = checkpoint /\ stored' = stored /\ ended' = ended
        /\ recovery[c] = "clear" /\ recovery'[c] = "done"
        /\ manifest'[c].turn = 0 /\ manifest'[c].pending = manifest[c].pending
        /\ \A d \in LocalChats \ {c} : manifest'[d] = manifest[d]
    BY DEF RecoveryClears, ChatInv, FileTypes, GateTypes
  <1>2. /\ command' = command /\ gen' = gen /\ begun' = begun /\ spoken' = spoken
        /\ writeFailures' = writeFailures
        /\ command[c].step = "none" /\ command[c].kind = "none" /\ gen[c].step = "none"
        /\ \A d \in LocalChats \ {c} : Moved(command[d], command'[d]) /\ GenStays(gen[d], gen'[d])
        /\ \A d \in LocalChats \ {c} : recovery'[d] = recovery[d]
        /\ TurnFits(c) /\ KeptFor(c) /\ EndedFor(c)
    BY RecoveryFrame
  <1>3. TurnFits(c)' /\ KeptFor(c)'
    BY <1>1, <1>2 DEF TurnFits, KeptFor
  <1>4. EndedFor(c)'
    BY <1>1, <1>2 DEF EndedFor, OnceFor
  <1>5. ended' \in [SentTurns -> Nat]
    BY DEF FileTypes
  <1> QED BY <1>1, <1>2, <1>3, <1>4, <1>5, StepFits DEF ChatFits

(* The generation of a command.                                            *)
LEMMA StartsStay ==
  ASSUME ChatInv, FileTypes', TurnInv, NEW c \in LocalChats,
         Starts(c) \/ (Resumes(c) /\ ~Generating(c))
  PROVE  TurnInv'
  <1>1. /\ command[c].step \in {"begun", "resuming"} /\ gen[c].step = "none"
        /\ StartsGeneration(c, Started(c)) /\ UNCHANGED ChatLife
        /\ UNCHANGED <<ChatFiles, ChatHistory, ChatLife, writeFailures>>
    BY StartsShape
  <1>2. /\ Started(c) \in GenerationType /\ Started(c).step = "running"
        /\ Started(c).turn = command[c].turn /\ Started(c).caught = FALSE
    BY StartedIsTyped
  <1>3. /\ command' = [command EXCEPT ![c] = NoCommand]
        /\ Alike(gen'[c], Started(c)) /\ \A d \in LocalChats \ {c} : gen'[d] = gen[d]
    BY <1>1, <1>2, StartIsCounted DEF Holds
  <1>4. /\ command'[c].step = "none" /\ command'[c].kind = "none"
        /\ \A d \in LocalChats \ {c} : command'[d] = command[d]
    BY <1>3, NothingIsReserved DEF ChatInv, GateTypes
  <1>5. gen'[c].step = "running" /\ gen'[c].turn = command[c].turn /\ gen'[c].caught = FALSE
    BY <1>2, <1>3 DEF Alike
  <1>6. /\ manifest' = manifest /\ checkpoint' = checkpoint /\ stored' = stored
        /\ ended' = ended /\ begun' = begun /\ spoken' = spoken
        /\ writeFailures' = writeFailures /\ recovery' = recovery
    BY <1>1 DEF ChatFiles, ChatHistory, ChatLife
  <1>7. /\ TurnFits(c) /\ KeptFor(c) /\ EndedFor(c) /\ CommandFits(command[c], gen[c])
        /\ recovery[c] = "done"
    BY <1>1, Own
  <1>8. TurnFits(c)'
    BY <1>1, <1>4, <1>5, <1>6, <1>7 DEF TurnFits
  <1>9. KeptFor(c)'
    BY <1>5, <1>6, <1>7 DEF KeptFor
  <1>10. EndedFor(c)'
    <2>1. writeFailures = 0 => ~manifest[c].pending
      BY <1>1, <1>7 DEF EndedFor, OnceFor, TurnFits, CommandFits
    <2> QED BY <1>1, <1>4, <1>5, <1>6, <1>7, <2>1 DEF EndedFor, OnceFor
  <1>11. /\ \A d \in LocalChats \ {c} : Moved(command[d], command'[d]) /\ GenStays(gen[d], gen'[d])
         /\ ended' \in [SentTurns -> Nat]
    BY <1>3, <1>4 DEF Moved, GenStays, FileTypes
  <1> QED BY <1>4, <1>6, <1>8, <1>9, <1>10, <1>11, StepFits DEF ChatFits

(* The tool of an action, before it runs and after.                        *)
LEMMA ExecutesStay ==
  ASSUME ChatInv, FileTypes', TurnInv, NEW c \in LocalChats, Executes(c) \/ Executed(c)
  PROVE  TurnInv'
  <1>1. /\ checkpoint' = checkpoint /\ stored' = stored /\ ended' = ended /\ begun' = begun
        /\ spoken' = spoken /\ writeFailures' = writeFailures /\ gen' = gen
        /\ recovery' = recovery /\ command[c].step # "none"
        /\ \A d \in LocalChats \ {c} : command'[d] = command[d]
        /\ \A d \in LocalChats \ {c} : manifest'[d] = manifest[d]
    BY DEF Executes, Executed, ChatFiles, ChatHistory, ChatLife, ChatInv, GateTypes, FileTypes
  <1>2. /\ TurnFits(c) /\ KeptFor(c) /\ EndedFor(c) /\ CommandFits(command[c], gen[c])
        /\ recovery[c] = "done"
    BY <1>1, Own
  <1>3. KeptFor(c)'
    BY <1>1, <1>2 DEF KeptFor
  <1>4. /\ \A d \in LocalChats \ {c} : Moved(command[d], command'[d]) /\ GenStays(gen[d], gen'[d])
        /\ ended' \in [SentTurns -> Nat]
    BY <1>1 DEF Moved, GenStays, FileTypes
  <1>5. CASE Executes(c)
    <2>1. /\ command'[c].step = "executing" /\ command'[c].turn = manifest[c].turn
          /\ command'[c].kind = "generation" /\ manifest' = manifest
          /\ manifest[c].pending /\ manifest[c].turn # 0
      BY <1>5 DEF Executes, ChatFiles, ChatInv, GateTypes, CommandType
    <2>2. TurnFits(c)'
      BY <1>1, <1>2, <2>1 DEF TurnFits
    <2>3. EndedFor(c)'
      <3>1. gen[c] \in GenerationType
        BY DEF ChatInv, GateTypes
      <3>2. ASSUME writeFailures = 0
            PROVE  OnceFor(c)'
        <4>1. OnceFor(c) /\ gen[c].step \in {"none", "pausing"}
          BY <1>2, <2>1, <3>1, <3>2 DEF EndedFor, OnceFor, GenerationType
        <4> QED BY <1>1, <2>1, <4>1 DEF OnceFor
      <3> QED BY <1>1, <1>2, <2>1, <3>2 DEF EndedFor
    <2> QED BY <1>1, <1>3, <1>4, <2>1, <2>2, <2>3, StepFits DEF ChatFits
  <1>6. CASE Executed(c)
    <2>1. /\ command[c].step = "executing" /\ command'[c].step = "resuming"
          /\ command'[c].turn = command[c].turn /\ command'[c].kind = command[c].kind
          /\ manifest'[c].turn = manifest[c].turn /\ manifest'[c].pending = FALSE
      BY <1>6 DEF Executed, ChatInv, GateTypes, CommandType, FileTypes
    <2>2. TurnFits(c)'
      BY <1>1, <1>2, <2>1 DEF TurnFits
    <2>3. EndedFor(c)'
      BY <1>1, <1>2, <2>1 DEF EndedFor, OnceFor
    <2> QED BY <1>1, <1>3, <1>4, <2>1, <2>2, <2>3, StepFits DEF ChatFits
  <1> QED BY <1>5, <1>6

(* A new turn takes the next number, which nothing was written for.        *)
LEMMA NewTurnFits ==
  ASSUME ChatInv, TurnInv, NEW c \in LocalChats, TurnWritten(c),
         command[c].kind = "send", command[c].step = "granted",
         \/ command'[c].step = "none" /\ command'[c].kind = "none"
         \/ /\ command'[c].kind = "send" /\ command'[c].step = "begun"
            /\ command'[c].turn = LatestTurn + 1,
         \A d \in LocalChats \ {c} : Moved(command[d], command'[d]),
         \A d \in LocalChats : GenStays(gen[d], gen'[d]),
         checkpoint' = checkpoint, stored' = stored, ended' = ended, spoken' = spoken,
         recovery' = recovery, writeFailures' = 0 => writeFailures = 0
  PROVE  TurnInv'
  <1> DEFINE n == LatestTurn
  <1>1. /\ TurnFits(c) /\ EndedFor(c) /\ CommandFits(command[c], gen[c]) /\ recovery[c] = "done"
        /\ NumbersInv
    BY Own DEF TurnInv
  <1>2. command[c].turn = 0 /\ gen[c].step = "none" /\ ~manifest[c].pending
    BY <1>1 DEF CommandFits, TurnFits
  <1>3. /\ n \in 0 .. MaxSends
        /\ \A d \in LocalChats : begun[d] \in 0 .. MaxSends /\ begun[d] <= n
    BY <1>1, LatestIsGreatest DEF NumbersInv
  <1>4. /\ Cardinality(SendsUnderWay') + 1 <= Cardinality(SendsUnderWay)
        /\ Cardinality(SendsUnderWay) \in Nat /\ Cardinality(SendsUnderWay') \in Nat
    <2>1. IsFiniteSet(SendsUnderWay) /\ c \in SendsUnderWay
      BY <1>2, ChatsAreFinite DEF SendsUnderWay
    <2>2. SendsUnderWay' \subseteq SendsUnderWay \ {c}
      <3>1. ASSUME NEW d \in LocalChats \ {c}
            PROVE  command'[d].kind = command[d].kind /\ command'[d].turn = command[d].turn
        <4>1. command[d] \in CommandType /\ Moved(command[d], command'[d])
          BY DEF ChatInv, GateTypes
        <4> QED BY ONLY <4>1, MovedStays
      <3>2. ~(command'[c].kind = "send" /\ command'[c].turn = 0)
        BY <1>3, SendsAssumption
      <3> QED BY <3>1, <3>2 DEF SendsUnderWay
    <2>3. /\ Cardinality(SendsUnderWay) = Cardinality(SendsUnderWay \ {c}) + 1
          /\ Cardinality(SendsUnderWay \ {c}) \in Nat
      BY <2>1, Leaves
    <2>4. IsFiniteSet(SendsUnderWay \ {c})
      BY <2>1, FS_Subset
    <2>5. /\ Cardinality(SendsUnderWay') <= Cardinality(SendsUnderWay \ {c})
          /\ Cardinality(SendsUnderWay') \in Nat
      BY <2>2, <2>4, FS_Subset, FS_CardinalityType
    <2> QED BY <2>3, <2>5
  <1>5. n + Cardinality(SendsUnderWay) <= MaxSends
    BY <1>1 DEF NumbersInv
  <1>6. n + 1 <= MaxSends
    BY <1>3, <1>4, <1>5, SendsAssumption
  <1>7. /\ LatestTurn' = n + 1 /\ begun'[c] = n + 1
        /\ \A d \in LocalChats \ {c} : begun'[d] = begun[d]
        /\ \A d \in LocalChats : begun'[d] \in 0 .. MaxSends
    <2>1. begun \in [LocalChats -> Nat] /\ begun' = [begun EXCEPT ![c] = LatestTurn + 1]
      BY DEF TurnWritten, ChatInv, FileTypes
    <2> QED BY <1>3, <1>6, <2>1, LatestGrows
  <1>8. /\ manifest'[c].turn = n + 1 /\ manifest'[c].pending = manifest[c].pending
        /\ \A d \in LocalChats \ {c} : manifest'[d] = manifest[d]
    BY DEF TurnWritten, ChatInv, FileTypes
  <1>9. \A d \in LocalChats \ {c} : ChatFits(d)'
    BY <1>7, <1>8, OthersFit
  <1>10. /\ n + 1 \notin spoken /\ n + 1 # 0 /\ n + 1 \in SentTurns
         /\ ended[n + 1] = 0 /\ n + 1 \in Nat /\ n \in Nat
    <2>1. /\ n + 1 # 0 /\ n + 1 \in SentTurns /\ n + 1 > n /\ n + 1 \notin 1 .. n
          /\ n + 1 \in Nat /\ n \in Nat
      BY <1>3, <1>6, SendsAssumption DEF SentTurns
    <2> QED BY <1>1, <2>1 DEF NumbersInv
  <1> HIDE DEF n
  <1>11. NumbersInv'
    <2>1. LatestTurn' + Cardinality(SendsUnderWay') <= MaxSends
      BY <1>4, <1>5, <1>7, <1>10, SendsAssumption
    <2>2. \A d, e \in LocalChats : begun'[d] = begun'[e] /\ begun'[d] # 0 => d = e
      <3>1. \A d \in LocalChats \ {c} : begun'[d] # n + 1
        BY <1>3, <1>7, <1>10, SendsAssumption
      <3>2. \A d, e \in LocalChats : begun[d] = begun[e] /\ begun[d] # 0 => d = e
        BY <1>1 DEF NumbersInv
      <3> QED BY <1>7, <3>1, <3>2
    <2>3. \A t \in spoken : t \in 1 .. n + 1
      <3>1. \A t \in spoken : t \in 1 .. n
        BY <1>1 DEF NumbersInv, n
      <3> QED BY <1>10, <3>1
    <2>4. ASSUME NEW t \in SentTurns
          PROVE  /\ t > n + 1 => ended[t] = 0
                 /\ writeFailures' = 0 => ended[t] <= 1
      <3>1. /\ t > n => ended[t] = 0
            /\ writeFailures = 0 => ended[t] <= 1
        BY <1>1 DEF NumbersInv, n
      <3>2. t > n + 1 => t > n
        BY <1>10, SendsAssumption DEF SentTurns
      <3> QED BY <3>1, <3>2
    <2> QED BY <1>7, <2>1, <2>2, <2>3, <2>4 DEF NumbersInv
  <1>12. gen'[c].step = "none"
    BY <1>2 DEF GenStays
  <1>13. TurnFits(c)'
    BY <1>2, <1>7, <1>8, <1>10, <1>12 DEF TurnFits, n
  <1>14. KeptFor(c)'
    BY <1>1, <1>7, <1>10, <1>12 DEF KeptFor
  <1>15. EndedFor(c)'
    <2>1. OnceFor(c)'
      BY <1>2, <1>7, <1>8, <1>10, <1>12 DEF OnceFor
    <2> QED BY <1>1, <1>7, <1>8, <1>10, <1>12, <2>1 DEF EndedFor
  <1> QED BY <1>9, <1>11, <1>13, <1>14, <1>15 DEF TurnInv, ChatFits

LEMMA BeginsTurnFits ==
  ASSUME ChatInv, TurnInv, NEW c \in LocalChats, BeginsTurn(c)
  PROVE  TurnInv'
  <1>1. /\ TurnWritten(c) /\ command[c].kind = "send" /\ command[c].step = "granted"
        /\ checkpoint' = checkpoint /\ stored' = stored /\ ended' = ended /\ spoken' = spoken
        /\ recovery' = recovery /\ writeFailures' = writeFailures /\ gen' = gen
        /\ command' = [command EXCEPT ![c].step = "begun", ![c].turn = LatestTurn + 1]
    BY DEF BeginsTurn, ChatLife
  <1>2. /\ command'[c].kind = "send" /\ command'[c].step = "begun"
        /\ command'[c].turn = LatestTurn + 1
        /\ \A d \in LocalChats \ {c} : Moved(command[d], command'[d])
    BY <1>1, LatestIsNatural DEF ChatInv, GateTypes, CommandType, Moved
  <1>3. \A d \in LocalChats : GenStays(gen[d], gen'[d])
    BY <1>1 DEF GenStays
  <1> QED BY <1>1, <1>2, <1>3, NewTurnFits

(* A write of a command fails, done or not.                                *)
LEMMA FailureFits ==
  ASSUME ChatInv, FileTypes', TurnInv, NEW c \in LocalChats, CommandFails(c)
  PROVE  TurnInv'
  <1>1. /\ checkpoint' = checkpoint /\ stored' = stored /\ ended' = ended /\ spoken' = spoken
        /\ recovery' = recovery /\ writeFailures' # 0 /\ UNCHANGED ChatLife
        /\ command[c].step \in Holds /\ CommandEndsAndReleases(c)
    BY DEF CommandFails, ChatLife, ChatInv, FileTypes, Holds
  <1>2. /\ command'[c] = NoCommand
        /\ \A d \in LocalChats \ {c} : Moved(command[d], command'[d])
        /\ \A d \in LocalChats : GenStays(gen[d], gen'[d])
    BY <1>1, EndedShape
  <1>3. command'[c].step = "none" /\ command'[c].kind = "none"
    BY <1>2, NothingIsReserved
  <1>4. CASE command[c].kind = "send" /\ command[c].step = "granted" /\ TurnWritten(c)
    BY <1>1, <1>2, <1>3, <1>4, NewTurnFits
  <1>5. ASSUME begun' = begun, manifest'[c].turn = manifest[c].turn,
               \A d \in LocalChats \ {c} : manifest'[d] = manifest[d]
        PROVE  TurnInv'
    <2>1. /\ TurnFits(c) /\ KeptFor(c) /\ EndedFor(c) /\ recovery[c] = "done"
      BY <1>1, Own DEF Holds
    <2>2. \/ gen'[c].step = "none"
          \/ gen'[c].step = gen[c].step /\ gen'[c].turn = gen[c].turn
      BY <1>2 DEF GenStays
    <2>3. TurnFits(c)'
      BY <1>3, <1>5, <2>1, <2>2 DEF TurnFits
    <2>4. KeptFor(c)' /\ EndedFor(c)'
      BY <1>1, <1>3, <1>5, <2>1, <2>2 DEF KeptFor, EndedFor
    <2>5. ended' \in [SentTurns -> Nat]
      BY DEF FileTypes
    <2> QED BY <1>1, <1>2, <1>3, <1>5, <2>3, <2>4, <2>5, StepFits DEF ChatFits
  <1>6. CASE manifest' = [manifest EXCEPT ![c].pending = FALSE] /\ begun' = begun
    BY <1>5, <1>6 DEF ChatInv, FileTypes
  <1>7. CASE manifest' = manifest /\ begun' = begun
    BY <1>5, <1>7
  <1> QED BY <1>4, <1>6, <1>7 DEF CommandFails

LEMMA TurnsStart == ChatInit => TurnInv
  <1> SUFFICES ASSUME ChatInit PROVE TurnInv
    OBVIOUS
  <1>1. \A c \in LocalChats : /\ begun[c] = 0 /\ manifest[c].turn = 0 /\ ~manifest[c].pending
                             /\ command[c] = NoCommand /\ gen[c].step = "none"
                             /\ recovery[c] = "done"
    BY DEF ChatInit, NoGeneration
  <1>2. LatestTurn = 0
    <2>1. {t \in SentTurns : \E c \in LocalChats : begun[c] >= t} = {}
      BY <1>1, SendsAssumption DEF SentTurns
    <2> QED BY <2>1, FS_EmptySet DEF LatestTurn
  <1>3. Cardinality(SendsUnderWay) = 0
    <2>1. SendsUnderWay = {}
      BY <1>1, NothingIsReserved DEF SendsUnderWay
    <2> QED BY <2>1, FS_EmptySet
  <1>4. NumbersInv
    BY <1>1, <1>2, <1>3, SendsAssumption DEF ChatInit, NumbersInv
  <1>5. \A c \in LocalChats : ChatFits(c)
    BY <1>1, NothingIsReserved DEF ChatInit, ChatFits, TurnFits, KeptFor, EndedFor, OnceFor
  <1> QED BY <1>4, <1>5 DEF TurnInv

LEMMA TurnsStay == ChatInv /\ TurnInv /\ [ChatNext]_ChatVars => TurnInv'
  <1> SUFFICES ASSUME ChatInv, TurnInv, [ChatNext]_ChatVars PROVE TurnInv'
    OBVIOUS
  <1>1. FileTypes'
    BY FilesKeepTypes
  <1>2. ASSUME NEW c \in LocalChats,
               \/ SendBegins(c) \/ ResolveBegins(c) \/ MutationBegins(c) \/ Interrupts(c)
        PROVE  TurnInv'
    BY <1>2, BegunStay, InterruptedStay
  <1>3. ASSUME NEW c \in LocalChats, CommandNext(c) \/ CommandFails(c)
        PROVE  TurnInv'
    <2>1. CASE MutationEnds(c) \/ GivesUp(c)
      BY <2>1, EndedStay
    <2>2. CASE Acquires(c)
      BY <2>2, EndedStay, AcquiredStay
    <2>3. CASE BeginsTurn(c)
      BY <2>3, BeginsTurnFits
    <2>4. CASE Starts(c) \/ Resumes(c)
      BY <1>1, <2>4, EndedStay, StartsStay
    <2>5. CASE Executes(c) \/ Executed(c)
      BY <1>1, <2>5, ExecutesStay
    <2>6. CASE CommandFails(c)
      BY <1>1, <2>6, FailureFits
    <2> QED BY <1>3, <2>1, <2>2, <2>3, <2>4, <2>5, <2>6 DEF CommandNext
  <1>4. ASSUME NEW c \in LocalChats,
               \/ Says(c) \/ Checkpoints(c) \/ Answers(c) \/ Breaks(c) \/ Asks(c)
               \/ GenerationNext(c) \/ WriteFailsIn(c)
        PROVE  TurnInv'
    BY <1>1, <1>4, SaysStay, CheckpointsStay, AnswersStay, BreaksStay, AsksStay, WritesStay,
       UnlinksStay, FinishesStay, WriteFailuresStay DEF GenerationNext
  <1>5. ASSUME NEW c \in LocalChats,
               \/ RecoversText(c) \/ RecoveryUnlinks(c) \/ RecoversTurn(c) \/ RecoveryClears(c)
        PROVE  TurnInv'
    BY <1>1, <1>5, TextRecovered, CheckpointRecovered, TurnRecovered, ManifestRecovered
  <1>6. CASE \/ LocalCloseBegins \/ ReservationsEnd \/ LocalCloseEnds \/ LocalRestarts \/ Recovered
             \/ UNCHANGED ChatVars
    BY <1>6, ServiceStays
  <1> QED BY <1>2, <1>3, <1>4, <1>5, <1>6 DEF ChatNext

(* Which turn a chat is at, which of its text is on disk and which of its  *)
(* turns have ended: the invariant that the next two theorems follow from  *)
(* (localLlmChatLibrary.ts:320, localLlmChatRecovery.ts:66,94).            *)
THEOREM TurnInvariant == ChatSpec => []TurnInv
  <1> QED BY TurnsStart, TurnsStay, GateInvariant, PTL DEF ChatSpec

(* Text of the latest answer that was once on disk stays there, as         *)
(* checkpoint or as message, through every crash, failed write and         *)
(* interrupt (localLlmChatLibrary.ts:320, localLlmChatRecovery.ts:66).     *)
THEOREM AnswersAreKept == ChatSpec => []AnswerKept
  <1>1. TurnInv => AnswerKept
    BY DEF TurnInv, ChatFits, KeptFor, AnswerKept
  <1> QED BY <1>1, TurnInvariant, PTL

(* A turn that is no longer active has an end in the ledger, and only one  *)
(* unless a write failed, however often the daemon crashed between the     *)
(* event and the manifest (localLlmChatRecovery.ts:94).                    *)
THEOREM TurnsEndOnce == ChatSpec => []EndsOnce
  <1>1. TurnInv => EndsOnce
    BY DEF TurnInv, NumbersInv, ChatFits, EndedFor, EndsOnce
  <1> QED BY <1>1, TurnInvariant, PTL
===============================================================================
