------------------------------ MODULE LocalChat ------------------------------
(***************************************************************************)
(* LocalLlmChatService: chats with a local model.  Every command of a chat *)
(* holds the reservation of that chat while it starts; a generation holds  *)
(* one of the slots that all chats share, writes what it has said to a     *)
(* checkpoint, and ends its turn in three files: messages.jsonl,           *)
(* events.jsonl and chat.json.  It may stop for an action that the user    *)
(* has to approve.  Interrupts, the close and crashes come at any time,    *)
(* and a write may fail, done or not.                                      *)
(***************************************************************************)
EXTENDS Naturals, Sequences, SequencesExt, FiniteSets

CONSTANTS LocalChats,           \* chats
          CommandKinds,         \* "send", "generation" (an action resolved), "mutation"
          Concurrency,          \* slots: generations at a time
          QueueCapacity,        \* commands that may wait for a slot
          MaxSends,             \* turns, of all chats
          MaxWriteFailures,     \* writes that fail
          MaxRestarts           \* starts after the first

ASSUME LocalChatsAssumption == IsFiniteSet(LocalChats)
ASSUME KindsAssumption == CommandKinds \subseteq {"send", "generation", "mutation"}
ASSUME GateAssumption == Concurrency \in Nat \ {0} /\ QueueCapacity \in Nat \ {0}
ASSUME SendsAssumption == MaxSends \in Nat

VARIABLES manifest,             \* chat.json: the active turn, whether an action
                                \* of it is pending, and whether text precedes it
          checkpoint,           \* pending-assistant.json: its turn, or 0
          stored,               \* messages.jsonl: answers by turn
          ended,                \* events.jsonl: terminal events by turn
          begun,                \* the latest turn of each chat
          command,              \* the reservation of each chat
          gen,                  \* its active generation
          slots, queue,         \* the gate: slots in use, commands that wait
          interrupt,            \* an interrupt of each chat
          chatService,          \* "recovering", "running", "closing", "draining", "closed"
          awaited,              \* the generations that close() waits for
          recovery,             \* how far the recovery of each chat is
          spoken,               \* history: turns of which a checkpoint was written
          writeFailures, restarts

ChatFiles == <<manifest, checkpoint, stored, ended>>
ChatGate == <<slots, queue>>
ChatHistory == <<begun, spoken, restarts>>
ChatLife == <<chatService, awaited, recovery>>
ChatVars == <<ChatFiles, ChatGate, ChatHistory, ChatLife, command, gen, interrupt,
              writeFailures>>

SentTurns == 1 .. MaxSends
NoCommand == [kind |-> "none", step |-> "none", turn |-> 0, cancelled |-> FALSE]
NoGeneration == [step |-> "none", turn |-> 0, text |-> FALSE, aborted |-> FALSE,
                 resumed |-> FALSE, caught |-> FALSE]

Reserved(c) == command[c] # NoCommand
Generating(c) == gen[c] # NoGeneration
LatestTurn == Cardinality({t \in SentTurns : \E c \in LocalChats : begun[c] >= t})

ChatInit ==
  /\ manifest = [c \in LocalChats |-> [turn |-> 0, pending |-> FALSE, text |-> FALSE]]
  /\ checkpoint = [c \in LocalChats |-> 0]
  /\ stored = [t \in SentTurns |-> 0]
  /\ ended = [t \in SentTurns |-> 0]
  /\ begun = [c \in LocalChats |-> 0]
  /\ command = [c \in LocalChats |-> NoCommand]
  /\ gen = [c \in LocalChats |-> NoGeneration]
  /\ slots = 0 /\ queue = <<>>
  /\ interrupt = [c \in LocalChats |-> "none"]
  /\ chatService = "running" /\ awaited = {}
  /\ recovery = [c \in LocalChats |-> "done"]
  /\ spoken = {} /\ writeFailures = 0 /\ restarts = 0

-----------------------------------------------------------------------------
(* The gate.  A slot that is released goes to the first command that waits.*)
SlotReleased(commands) ==
  IF queue = <<>>
  THEN slots' = slots - 1 /\ command' = commands /\ UNCHANGED queue
  ELSE /\ command' = [commands EXCEPT ![Head(queue)].step = "granted"]
       /\ queue' = Tail(queue)
       /\ UNCHANGED slots

(* The command of a chat is over: an interrupt that waited for it looks at *)
(* what it has started.                                                    *)
WithoutCommand(c) == [command EXCEPT ![c] = NoCommand]

(* Variant: an interrupt that waits for the command is not told of its end.*)
SeenByNobody(c, gens) == gen' = gens /\ UNCHANGED interrupt

SeenByInterrupt(c, gens) ==
  IF interrupt[c] # "reserved" THEN gen' = gens /\ UNCHANGED interrupt
  ELSE IF gens[c] = NoGeneration
  THEN gen' = gens /\ interrupt' = [interrupt EXCEPT ![c] = "none"]
  ELSE /\ gen' = [gens EXCEPT ![c].aborted = TRUE]
       /\ interrupt' = [interrupt EXCEPT ![c] = "waiting"]

CommandEnds(c) ==
  /\ command' = WithoutCommand(c)
  /\ SeenByInterrupt(c, gen)
  /\ UNCHANGED ChatGate

CommandEndsAndReleases(c) == SlotReleased(WithoutCommand(c)) /\ SeenByInterrupt(c, gen)

(* Variant: the command that has started a generation releases its slot.     *)
StartsAndReleases(c, g) ==
  /\ SlotReleased(WithoutCommand(c))
  /\ SeenByInterrupt(c, [gen EXCEPT ![c] = g])

StartsGeneration(c, g) ==
  /\ command' = WithoutCommand(c)
  /\ SeenByInterrupt(c, [gen EXCEPT ![c] = g])
  /\ UNCHANGED ChatGate

(* The finally of a generation.                                            *)
GenerationEnds(c) ==
  /\ gen' = [gen EXCEPT ![c] = NoGeneration]
  /\ interrupt' = [interrupt EXCEPT ![c] = IF @ = "waiting" THEN "none" ELSE @]
  /\ SlotReleased(command)

-----------------------------------------------------------------------------
(* Commands, which are refused while another one of the chat starts.       *)
CommandBegins(c, kind) ==
  /\ kind \in CommandKinds /\ chatService = "running" /\ ~Reserved(c)
  /\ command' = [command EXCEPT ![c] = [NoCommand EXCEPT !.kind = kind, !.step = "reading"]]
  /\ UNCHANGED <<ChatFiles, ChatGate, ChatHistory, ChatLife, gen, interrupt, writeFailures>>

SendsUnderWay == {c \in LocalChats : command[c].kind = "send" /\ command[c].turn = 0}

SendBegins(c) ==
  /\ ~Generating(c) /\ LatestTurn + Cardinality(SendsUnderWay) < MaxSends
  /\ CommandBegins(c, "send")
ResolveBegins(c) == manifest[c].pending /\ CommandBegins(c, "generation")
MutationBegins(c) == CommandBegins(c, "mutation")

MutationEnds(c) ==
  /\ command[c].kind = "mutation"
  /\ CommandEnds(c)
  /\ UNCHANGED <<ChatFiles, ChatHistory, ChatLife, writeFailures>>

(* A message is refused while an action is pending.  LM Studio that is not *)
(* ready ends the command here, with the message kept as a draft; so does  *)
(* a full queue.                                                           *)
Acquires(c) ==
  /\ command[c].kind # "mutation" /\ command[c].step = "reading"
  /\ \/ /\ \/ command[c].cancelled \/ command[c].kind = "send"
           \/ slots = Concurrency /\ Len(queue) = QueueCapacity
        /\ CommandEnds(c)
     \/ /\ ~command[c].cancelled
        /\ command[c].kind = "send" => ~manifest[c].pending
        /\ IF slots < Concurrency
           THEN /\ slots' = slots + 1
                /\ command' = [command EXCEPT ![c].step = "granted"]
                /\ UNCHANGED <<queue, gen, interrupt>>
           ELSE /\ Len(queue) < QueueCapacity
                /\ queue' = Append(queue, c)
                /\ command' = [command EXCEPT ![c].step = "queued"]
                /\ UNCHANGED <<slots, gen, interrupt>>
  /\ UNCHANGED <<ChatFiles, ChatHistory, ChatLife, writeFailures>>

(* A granted command that was cancelled, or one whose action is no longer  *)
(* pending, gives its slot back.                                           *)
GivesUp(c) ==
  /\ command[c].step \in {"granted", "executing"}
  /\ \/ command[c].cancelled
     \/ command[c].kind = "generation" /\ (~manifest[c].pending \/ manifest[c].turn = 0)
  /\ CommandEndsAndReleases(c)
  /\ UNCHANGED <<ChatFiles, ChatHistory, ChatLife, writeFailures>>

(* beginTurn names the turn in the manifest.                               *)
TurnWritten(c) ==
  /\ begun' = [begun EXCEPT ![c] = LatestTurn + 1]
  /\ manifest' = [manifest EXCEPT ![c].turn = LatestTurn + 1]

BeginsTurn(c) ==
  /\ command[c].kind = "send" /\ command[c].step = "granted" /\ ~command[c].cancelled
  /\ TurnWritten(c)
  /\ command' = [command EXCEPT ![c].step = "begun", ![c].turn = LatestTurn + 1]
  /\ UNCHANGED <<checkpoint, stored, ended, ChatGate, spoken, restarts, ChatLife, gen,
                 interrupt, writeFailures>>

(* The event and the message of the user follow; a cancellation that comes *)
(* now is left to the one who looks at the generation afterwards.          *)
Starts(c) ==
  /\ command[c].step = "begun"
  /\ StartsGeneration(c, [NoGeneration EXCEPT !.step = "running", !.turn = command[c].turn])
  /\ UNCHANGED <<ChatFiles, ChatHistory, ChatLife, writeFailures>>

(* An approved or rejected action: the tool runs, and only then is the     *)
(* action no longer pending.                                               *)
Executes(c) ==
  /\ command[c].kind = "generation" /\ command[c].step = "granted" /\ ~command[c].cancelled
  /\ manifest[c].pending /\ manifest[c].turn # 0
  /\ command' = [command EXCEPT ![c].step = "executing", ![c].turn = manifest[c].turn]
  /\ UNCHANGED <<ChatFiles, ChatGate, ChatHistory, ChatLife, gen, interrupt, writeFailures>>

Executed(c) ==
  /\ command[c].step = "executing" /\ ~command[c].cancelled
  /\ manifest' = [manifest EXCEPT ![c].pending = FALSE]
  /\ command' = [command EXCEPT ![c].step = "resuming"]
  /\ UNCHANGED <<checkpoint, stored, ended, ChatGate, ChatHistory, ChatLife, gen,
                 interrupt, writeFailures>>

(* resumeAfterAction is a conflict while the generation that asked is still*)
(* there; the answer goes on with the text before the action.              *)
Resumes(c) ==
  /\ command[c].step = "resuming"
  /\ IF Generating(c) THEN CommandEndsAndReleases(c)
     ELSE StartsGeneration(c, [NoGeneration EXCEPT !.step = "running", !.turn = command[c].turn,
                                                   !.text = manifest[c].text, !.resumed = TRUE])
  /\ UNCHANGED <<ChatFiles, ChatHistory, ChatLife, writeFailures>>

(* A write of a command fails, and may be done all the same: the quota is  *)
(* enforced after each.                                                    *)
CommandFails(c) ==
  /\ writeFailures < MaxWriteFailures /\ writeFailures' = writeFailures + 1
  /\ \/ /\ command[c].kind = "send" /\ command[c].step = "granted"
        /\ TurnWritten(c)
     \/ /\ command[c].step = "executing"
        /\ manifest' = [manifest EXCEPT ![c].pending = FALSE] /\ UNCHANGED begun
     \/ command[c].step \in {"begun", "executing", "resuming"} /\ UNCHANGED <<manifest, begun>>
  /\ CommandEndsAndReleases(c)
  /\ UNCHANGED <<checkpoint, stored, ended, spoken, restarts, ChatLife>>

-----------------------------------------------------------------------------
(* The generation.                                                         *)
Says(c) ==
  /\ gen[c].step = "running" /\ ~gen[c].text
  /\ gen' = [gen EXCEPT ![c].text = TRUE]
  /\ UNCHANGED <<ChatFiles, ChatGate, ChatHistory, ChatLife, command, interrupt, writeFailures>>

(* The timer of the checkpoint.  One that cannot be written rejects a      *)
(* promise that nobody handles: the daemon shuts down, as it may anyway.   *)
Checkpoints(c) ==
  /\ gen[c].step = "running" /\ gen[c].text
  /\ checkpoint' = [checkpoint EXCEPT ![c] = gen[c].turn]
  /\ spoken' = spoken \cup {gen[c].turn}
  /\ UNCHANGED <<manifest, stored, ended, ChatGate, begun, restarts, ChatLife, command,
                 gen, interrupt, writeFailures>>

Answers(c) ==
  /\ gen[c].step = "running"
  /\ gen' = [gen EXCEPT ![c].step = IF gen[c].text THEN "saving" ELSE "ending"]
  /\ UNCHANGED <<ChatFiles, ChatGate, ChatHistory, ChatLife, command, interrupt, writeFailures>>

(* The catch: a resumed generation records only that its turn failed.  An  *)
(* error in the catch itself rejects the promise of the generation.        *)
Throws(c) ==
  IF gen[c].caught THEN GenerationEnds(c)
  ELSE /\ gen' = [gen EXCEPT ![c].caught = TRUE,
                             ![c].step = IF gen[c].text /\ ~gen[c].resumed
                                         THEN "saving" ELSE "ending"]
       /\ UNCHANGED <<ChatGate, command, interrupt>>

Breaks(c) ==
  /\ gen[c].step = "running"
  /\ Throws(c)
  /\ UNCHANGED <<ChatFiles, ChatHistory, ChatLife, writeFailures>>

(* savePendingAgentAction, and the end of a generation that waits.  One    *)
(* that was not resumed writes its reasoning first.                        *)
Asks(c) ==
  /\ gen[c].step = "running"
  /\ manifest' = [manifest EXCEPT ![c].pending = TRUE, ![c].text = gen[c].text]
  /\ IF gen[c].resumed THEN GenerationEnds(c)
     ELSE /\ gen' = [gen EXCEPT ![c].step = "pausing"]
          /\ UNCHANGED <<ChatGate, command, interrupt>>
  /\ UNCHANGED <<checkpoint, stored, ended, ChatHistory, ChatLife, writeFailures>>

(* What each write of the end of a generation does.                        *)
AnswerStored(c) ==
  stored' = [stored EXCEPT ![gen[c].turn] = IF gen[c].step = "saving" THEN @ + 1 ELSE @]

TerminalStored(c) ==
  ended' = [ended EXCEPT ![gen[c].turn] = IF gen[c].step = "ending" THEN @ + 1 ELSE @]

TurnCleared(c) ==
  manifest' = [manifest EXCEPT ![c] = IF gen[c].step = "clearing" /\ @.turn = gen[c].turn
                              THEN [@ EXCEPT !.turn = 0, !.text = FALSE] ELSE @]

EndWritten(c) == AnswerStored(c) /\ TerminalStored(c) /\ TurnCleared(c)

AfterWrite == [saving |-> "unlinking", ending |-> "clearing"]

Writes(c) ==
  /\ gen[c].step \in DOMAIN AfterWrite
  /\ EndWritten(c)
  /\ gen' = [gen EXCEPT ![c].step = AfterWrite[@]]
  /\ UNCHANGED <<checkpoint, ChatGate, ChatHistory, ChatLife, command, interrupt,
                 writeFailures>>

(* Variant: the checkpoint goes before the message is written.             *)
UnlinksFirst(c) ==
  /\ \/ gen[c].step = "unlinking" /\ gen' = [gen EXCEPT ![c].step = "ending"]
     \/ gen[c].step = "saving" /\ UNCHANGED gen
  /\ checkpoint' = [checkpoint EXCEPT ![c] = 0]
  /\ UNCHANGED <<manifest, stored, ended, ChatGate, ChatHistory, ChatLife, command, interrupt,
                 writeFailures>>

Unlinks(c) ==
  /\ gen[c].step = "unlinking"
  /\ checkpoint' = [checkpoint EXCEPT ![c] = 0]
  /\ gen' = [gen EXCEPT ![c].step = "ending"]
  /\ UNCHANGED <<manifest, stored, ended, ChatGate, ChatHistory, ChatLife, command, interrupt,
                 writeFailures>>

Finishes(c) ==
  /\ gen[c].step \in {"clearing", "pausing"}
  /\ EndWritten(c)
  /\ GenerationEnds(c)
  /\ UNCHANGED <<checkpoint, ChatHistory, ChatLife, writeFailures>>

WriteFailsIn(c) ==
  /\ gen[c].step \in {"saving", "ending", "clearing", "pausing"}
  /\ writeFailures < MaxWriteFailures /\ writeFailures' = writeFailures + 1
  /\ EndWritten(c) \/ UNCHANGED <<manifest, stored, ended>>
  /\ Throws(c)
  /\ UNCHANGED <<checkpoint, ChatHistory, ChatLife>>

-----------------------------------------------------------------------------
(* A command that is cancelled leaves the queue.  Changes of a chat go on. *)
Cancelled(cmd) ==
  [cmd EXCEPT !.cancelled = TRUE, !.step = IF @ = "queued" THEN "reading" ELSE @]

(* Its place is looked for when it is cancelled.                           **)
Withdrawn(c) == RemoveAt(queue, CHOOSE i \in DOMAIN queue : queue[i] = c)

Starting(c) == command[c].kind \in {"send", "generation"}

Interrupts(c) ==
  /\ chatService = "running" /\ interrupt[c] = "none"
  /\ Reserved(c) \/ Generating(c)
  /\ IF Reserved(c)
     THEN /\ command' = [command EXCEPT ![c] = IF Starting(c) THEN Cancelled(@) ELSE @]
          /\ queue' = IF command[c].step = "queued" THEN Withdrawn(c) ELSE queue
          /\ interrupt' = [interrupt EXCEPT ![c] = "reserved"]
          /\ UNCHANGED gen
     ELSE /\ gen' = [gen EXCEPT ![c].aborted = TRUE]
          /\ interrupt' = [interrupt EXCEPT ![c] = "waiting"]
          /\ UNCHANGED <<command, queue>>
  /\ UNCHANGED <<ChatFiles, slots, ChatHistory, ChatLife, writeFailures>>

Aborted(gens) ==
  [c \in LocalChats |-> IF gens[c] = NoGeneration THEN NoGeneration
                        ELSE [gens[c] EXCEPT !.aborted = TRUE]]

(* close(): the gate, the generations, the reservations; once these are    *)
(* over, the generations that they have started meanwhile.                 *)
LocalCloseBegins ==
  /\ chatService = "running"
  /\ chatService' = "closing"
  /\ queue' = <<>>
  /\ gen' = Aborted(gen)
  /\ awaited' = {c \in LocalChats : Generating(c)}
  /\ command' = [c \in LocalChats |-> IF Reserved(c) THEN Cancelled(command[c]) ELSE NoCommand]
  /\ UNCHANGED <<ChatFiles, slots, ChatHistory, recovery, interrupt, writeFailures>>

(* Variant: the generations are looked at once.                            *)
ReservationsEndOnly ==
  /\ chatService = "closing" /\ \A c \in LocalChats : ~Reserved(c)
  /\ chatService' = "draining"
  /\ UNCHANGED <<ChatFiles, ChatGate, ChatHistory, awaited, recovery, command, gen, interrupt,
                 writeFailures>>

ReservationsEnd ==
  /\ chatService = "closing" /\ \A c \in LocalChats : ~Reserved(c)
  /\ chatService' = "draining"
  /\ awaited' = awaited \cup {c \in LocalChats : Generating(c)}
  /\ gen' = Aborted(gen)
  /\ UNCHANGED <<ChatFiles, ChatGate, ChatHistory, recovery, command, interrupt, writeFailures>>

LocalCloseEnds ==
  /\ chatService = "draining" /\ \A c \in awaited : ~Generating(c)
  /\ chatService' = "closed"
  /\ UNCHANGED <<ChatFiles, ChatGate, ChatHistory, awaited, recovery, command, gen, interrupt,
                 writeFailures>>

-----------------------------------------------------------------------------
(* The daemon ends, closed or not, and starts again with what is on disk.  *)
LocalRestarts ==
  /\ restarts < MaxRestarts /\ restarts' = restarts + 1
  /\ chatService' = "recovering" /\ awaited' = {}
  /\ recovery' = [c \in LocalChats |-> "checkpoint"]
  /\ command' = [c \in LocalChats |-> NoCommand]
  /\ gen' = [c \in LocalChats |-> NoGeneration]
  /\ interrupt' = [c \in LocalChats |-> "none"]
  /\ slots' = 0 /\ queue' = <<>>
  /\ UNCHANGED <<ChatFiles, begun, spoken, writeFailures>>

(* The checkpoint becomes a message unless it is one already; then the     *)
(* turn ends unless it has, or waits for an approval.                      *)
RecoversText(c) ==
  /\ recovery[c] = "checkpoint"
  /\ stored' = [t \in SentTurns |->
       IF t = checkpoint[c] /\ stored[t] = 0 THEN 1 ELSE stored[t]]
  /\ recovery' = [recovery EXCEPT ![c] = "unlink"]
  /\ UNCHANGED <<manifest, checkpoint, ended, ChatGate, ChatHistory, chatService, awaited,
                 command, gen, interrupt, writeFailures>>

RecoveryUnlinks(c) ==
  /\ recovery[c] = "unlink"
  /\ checkpoint' = [checkpoint EXCEPT ![c] = 0]
  /\ recovery' = [recovery EXCEPT ![c] = "turn"]
  /\ UNCHANGED <<manifest, stored, ended, ChatGate, ChatHistory, chatService, awaited,
                 command, gen, interrupt, writeFailures>>

(* Variant: the event is written without a look at what is there.          *)
EndedAgain(t) == 1

EndedOnce(t) == IF ended[t] = 0 THEN 1 ELSE 0

RecoversTurn(c) ==
  /\ recovery[c] = "turn"
  /\ IF manifest[c].turn = 0 \/ manifest[c].pending
     THEN recovery' = [recovery EXCEPT ![c] = "done"] /\ UNCHANGED ended
     ELSE /\ recovery' = [recovery EXCEPT ![c] = "clear"]
          /\ ended' = [ended EXCEPT ![manifest[c].turn] = @ + EndedOnce(manifest[c].turn)]
  /\ UNCHANGED <<manifest, checkpoint, stored, ChatGate, ChatHistory, chatService, awaited,
                 command, gen, interrupt, writeFailures>>

RecoveryClears(c) ==
  /\ recovery[c] = "clear"
  /\ manifest' = [manifest EXCEPT ![c].turn = 0, ![c].text = FALSE]
  /\ recovery' = [recovery EXCEPT ![c] = "done"]
  /\ UNCHANGED <<checkpoint, stored, ended, ChatGate, ChatHistory, chatService, awaited,
                 command, gen, interrupt, writeFailures>>

(* Every command awaits recoveryPromise.                                   *)
Recovered ==
  /\ chatService = "recovering" /\ \A c \in LocalChats : recovery[c] = "done"
  /\ chatService' = "running"
  /\ UNCHANGED <<ChatFiles, ChatGate, ChatHistory, awaited, recovery, command, gen, interrupt,
                 writeFailures>>

-----------------------------------------------------------------------------
CommandNext(c) ==
  \/ MutationEnds(c) \/ Acquires(c) \/ GivesUp(c) \/ BeginsTurn(c) \/ Starts(c)
  \/ Executes(c) \/ Executed(c) \/ Resumes(c)

GenerationNext(c) == Writes(c) \/ Unlinks(c) \/ Finishes(c)

ChatNext ==
  \/ \E c \in LocalChats :
       \/ SendBegins(c) \/ ResolveBegins(c) \/ MutationBegins(c) \/ Interrupts(c)
       \/ CommandNext(c) \/ CommandFails(c)
       \/ Says(c) \/ Checkpoints(c) \/ Answers(c) \/ Breaks(c) \/ Asks(c)
       \/ GenerationNext(c) \/ WriteFailsIn(c)
       \/ RecoversText(c) \/ RecoveryUnlinks(c) \/ RecoversTurn(c) \/ RecoveryClears(c)
  \/ LocalCloseBegins \/ ReservationsEnd \/ LocalCloseEnds \/ LocalRestarts \/ Recovered

ChatSpec == ChatInit /\ [][ChatNext]_ChatVars

(* Commands go on, tools and requests to the model end once aborted, and   *)
(* so does what a generation writes at its end.  A generation that nobody  *)
(* aborts may take as long as it likes, and so may whoever waits for it.   *)
ChatFairness ==
  /\ \A c \in LocalChats : /\ WF_ChatVars(CommandNext(c))
                           /\ WF_ChatVars(GenerationNext(c))
                           /\ WF_ChatVars(gen[c].aborted /\ Breaks(c))
  /\ WF_ChatVars(ReservationsEnd)
  /\ WF_ChatVars(LocalCloseEnds)

-----------------------------------------------------------------------------
(* Text of the latest answer that was once on disk stays there, as         *)
(* checkpoint or as message, through every crash and failed write          *)
(* (localLlmChatLibrary.ts:320, localLlmChatRecovery.ts:66).               *)
AnswerKept ==
  \A c \in LocalChats : begun[c] \in spoken =>
    checkpoint[c] = begun[c] \/ stored[begun[c]] > 0

(* A turn that is no longer active has an end in the ledger, and, unless a *)
(* write failed, only one: a crash between the event and the manifest is   *)
(* told from one before both (localLlmChatRecovery.ts:94).                 *)
EndsOnce ==
  /\ \A c \in LocalChats : begun[c] \notin {0, manifest[c].turn} => ended[begun[c]] > 0
  /\ writeFailures = 0 => \A t \in SentTurns : ended[t] <= 1

(* Every slot in use belongs to one generation or one command that starts  *)
(* it, whichever way these end, and nobody waits while one is free         *)
(* (localLlmGenerationGate.ts:68).                                         *)
SlotsCounted ==
  /\ slots = Cardinality({c \in LocalChats : Generating(c)})
             + Cardinality({c \in LocalChats :
                 command[c].step \in {"granted", "begun", "executing", "resuming"}})
  /\ slots <= Concurrency
  /\ queue # <<>> => slots = Concurrency

(* Nothing starts or generates any more once close() has ended, not even   *)
(* what a command had started after the first look                         *)
(* (localLlmChatService.ts:487).                                           *)
ClosedIsQuiet ==
  chatService = "closed" => \A c \in LocalChats : ~Reserved(c) /\ ~Generating(c)

(* An interrupt ends, whatever it finds: a command in the queue, one that  *)
(* runs a tool, a generation of this chat; and so does close()             *)
(* (localLlmChatService.ts:453, localLlmChatCommandScheduler.ts:50).       *)
StopsEnd ==
  /\ \A c \in LocalChats : interrupt[c] # "none" ~> interrupt[c] = "none"
  /\ chatService = "closing" ~> chatService # "closing" /\ chatService # "draining"

(* docs/daemon-api.md:600: a non-empty partial response is persisted once  *)
(* as an interrupted assistant message.  So when an interrupt returns and  *)
(* no write has failed, the text of what it ended is among the messages.   *)
PartialIsPersisted ==
  [][\A c \in LocalChats :
       interrupt[c] = "waiting" /\ gen[c].text /\ ~Generating(c)' /\ chatService' # "recovering"
       /\ ~manifest'[c].pending /\ writeFailures' = 0
         => stored[gen[c].turn] = 1]_ChatVars
===============================================================================
