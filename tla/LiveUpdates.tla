----------------------------- MODULE LiveUpdates -----------------------------
(***************************************************************************)
(* How a dashboard page follows the managed sessions: the events of the    *)
(* daemon with their cursors and the bounded replay buffer                 *)
(* (ServerEventReplayBuffer, createLiveUpdates), the socket that may be    *)
(* cut at any time, the cursor that the page resumes from, and the detail  *)
(* request that the page makes over HTTP beside it.  One page shows the    *)
(* overview of every session and the detail of the selected one.           *)
(***************************************************************************)
EXTENDS Naturals, Sequences, FiniteSets, SequencesExt

CONSTANTS Shown,                \* the sessions in the overview
          Selected,             \* the one whose detail is shown
          ReplayLimit,          \* events in the replay buffer
          MaxActivity,          \* updates and log lines there ever are
          MaxFaults             \* how often the socket is lost or the daemon restarts

ASSUME SelectedAssumption == Selected \in Shown
ASSUME ReplayLimitAssumption == ReplayLimit \in Nat \ {0}

VARIABLES daemon,               \* sessions, latestCursor, replayEvents
          link,                 \* the socket, as the daemon and the page have it
          page,                 \* the page's store and its pending request
          lost,                 \* history: an update got out of the page's reach
          faults                \* how often the socket or the daemon went

LiveVars == <<daemon, link, page, lost, faults>>

(* What is known of a session: content is the time of its last change that *)
(* is shown, at its lastActivityAt, which a log line moves, too.           *)
Blank == [content |-> 0, at |-> 0]

Hello  == [kind |-> "hello", cursor |-> 0, session |-> Selected, value |-> Blank]
NoLoad == [step |-> "none", value |-> Blank]

(* overtaken: an event was sent to the socket before its replay.           *)
DownLink == [up |-> FALSE, after |-> 0, replayed |-> TRUE, overtaken |-> FALSE,
             viewing |-> FALSE, presence |-> FALSE, channel |-> <<>>]

LiveInit ==
  /\ daemon = [clock |-> 0, state |-> [s \in Shown |-> Blank], cursor |-> 0, buffer |-> <<>>]
  /\ link = DownLink
  /\ page = [cursor |-> 0, overview |-> [s \in Shown |-> Blank],
             detail |-> Blank, load |-> NoLoad, cached |-> <<>>]
  /\ lost = FALSE
  /\ faults = 0

Behind == \E s \in Shown : page.overview[s].content < daemon.state[s].content

-----------------------------------------------------------------------------
(* The daemon.  broadcastServerEvent: a cursor, a place in the replay      *)
(* buffer unless it is a log line, and the socket if it is open.           *)

LiveEvent(kind, s, value) ==
  [kind |-> kind, cursor |-> daemon.cursor + 1, session |-> s, value |-> value]

(* Variant: an event is kept for replay only if nobody has got it.         *)
BufferedWhenDown(e) ==
  IF e.kind = "log" \/ link.up THEN daemon.buffer ELSE Append(daemon.buffer, e)

Buffered(e) ==
  IF e.kind = "log" THEN daemon.buffer
  ELSE IF Len(daemon.buffer) < ReplayLimit THEN Append(daemon.buffer, e)
  ELSE Append(Tail(daemon.buffer), e)

(* The oldest event is dropped while the page has still to get it.         *)
Evicts(e) ==
  /\ e.kind # "log" /\ Len(daemon.buffer) = ReplayLimit
  /\ Head(daemon.buffer).cursor > IF link.up THEN link.after ELSE page.cursor
  /\ ~link.up \/ ~link.replayed

(* activity is the daemon with the change that the event is about.         *)
Broadcast(e, activity, heard) ==
  /\ daemon' = [activity EXCEPT !.cursor = e.cursor, !.buffer = Buffered(e)]
  /\ link' = IF link.up /\ heard
             THEN [link EXCEPT !.channel = Append(@, e), !.overtaken = @ \/ ~link.replayed]
             ELSE link
  /\ lost' = (lost \/ Evicts(e))

(* updateSession and the session.updated that follows it.                  *)
SessionUpdated(s) ==
  /\ daemon.clock < MaxActivity
  /\ LET now == daemon.clock + 1
         new == [content |-> now, at |-> now]
     IN Broadcast(LiveEvent("summary", s, new),
                  [daemon EXCEPT !.clock = now, !.state[s] = new], TRUE)
  /\ UNCHANGED <<page, faults>>

(* appendSessionLog; only a page that looks at the log gets the line.      *)
LogAppended ==
  /\ daemon.clock < MaxActivity
  /\ LET now == daemon.clock + 1
         new == [daemon.state[Selected] EXCEPT !.at = now]
     IN \E heard \in {FALSE, link.viewing} :
          Broadcast(LiveEvent("log", Selected, new),
                    [daemon EXCEPT !.clock = now, !.state[Selected] = new], heard)
  /\ UNCHANGED <<page, faults>>

(* notifyPresenceChangedSessions: the session as it is now.                *)
PresenceNotice == LiveEvent("summary", Selected, daemon.state[Selected])

-----------------------------------------------------------------------------
(* The connection handler adds the socket and sends the hello; the replay  *)
(* is left to setImmediate, so that an event can overtake it.  A page that *)
(* has never got an event has no cursor to resume from.                    *)
SocketOpens ==
  /\ ~link.up
  /\ link' = [DownLink EXCEPT !.up = TRUE, !.after = page.cursor, !.replayed = FALSE,
                              !.channel = <<Hello>>]
  /\ lost' = (lost \/ (page.cursor = 0 /\ Behind))
  /\ UNCHANGED <<daemon, page, faults>>

(* The events are in the order of their cursors, so that those after a     *)
(* cursor are the ones behind those that are not.                          *)
Passed(cursor) == {i \in DOMAIN daemon.buffer : daemon.buffer[i].cursor <= cursor}

Unpassed(cursor) ==
  SubSeq(daemon.buffer, Cardinality(Passed(cursor)) + 1, Len(daemon.buffer))

(* Variant: the event after the cursor is taken for the one at it.         *)
ReadAfterNext(cursor) == IF cursor = 0 THEN <<>> ELSE Unpassed(cursor + 1)

ReadAfter(cursor) == IF cursor = 0 THEN <<>> ELSE Unpassed(cursor)

Replay ==
  /\ link.up /\ ~link.replayed
  /\ link' = [link EXCEPT !.replayed = TRUE, !.channel = @ \o ReadAfter(link.after)]
  /\ UNCHANGED <<daemon, page, lost, faults>>

(* Variant: the presence of a page is only remembered.                     *)
PresenceRemembered ==
  /\ link.up /\ link.presence /\ link.replayed
  /\ link' = [link EXCEPT !.presence = FALSE, !.viewing = TRUE]
  /\ UNCHANGED <<daemon, lost, page, faults>>

(* The page's presence arrives, after the hello's way there and back and   *)
(* so after the replay: the daemon sends the session that the page looks   *)
(* at.                                                                     *)
PresenceArrives ==
  /\ link.up /\ link.presence /\ link.replayed
  /\ daemon' = [daemon EXCEPT !.cursor = @ + 1, !.buffer = Buffered(PresenceNotice)]
  /\ link' = [link EXCEPT !.presence = FALSE, !.viewing = TRUE,
                          !.channel = Append(@, PresenceNotice)]
  /\ UNCHANGED <<lost, page, faults>>

(* Out of reach when the socket is lost: what was still on its way and the *)
(* buffer has dropped, what a later event has overtaken, and everything    *)
(* for a page without a cursor.                                            *)
Dropped(buffer) ==
  {e \in Range(link.channel) : /\ e.kind = "summary"
                               /\ Len(buffer) = ReplayLimit /\ e.cursor < Head(buffer).cursor}

OutOfReach(buffer) ==
  link.overtaken \/ (page.cursor = 0 /\ Behind) \/ Dropped(buffer) # {}

(* The socket is lost with what is on its way; the daemon tells the others *)
(* that the viewer is gone.                                                *)
SocketCut ==
  /\ link.up
  /\ faults < MaxFaults
  /\ faults' = faults + 1
  /\ daemon' = IF link.viewing
               THEN [daemon EXCEPT !.cursor = @ + 1, !.buffer = Buffered(PresenceNotice)]
               ELSE daemon
  /\ lost' = (lost \/ OutOfReach(daemon'.buffer))
  /\ link' = DownLink
  /\ UNCHANGED page

(* The sessions are in the database; cursors start again at one.           *)
DaemonRestarts ==
  /\ faults < MaxFaults
  /\ faults' = faults + 1
  /\ daemon' = [daemon EXCEPT !.cursor = 0, !.buffer = <<>>]
  /\ link' = DownLink
  /\ page' = [page EXCEPT !.load = IF @.step = "asked" THEN NoLoad ELSE @]
  /\ lost' = TRUE

-----------------------------------------------------------------------------
(* The page.                                                               *)

(* Variant: whatever came last is shown.                                   *)
NewerOrLast(old, new) == new

(* isTimestampOlder: a snapshot that is not older replaces the other.      *)
Newer(old, new) == IF new.at < old.at THEN old ELSE new

(* loadSession: what was loaded less than a second ago is taken again, a   *)
(* request that is under way is shared.                                    *)
Loading(p) ==
  IF p.cached # <<>> THEN [p EXCEPT !.detail = Newer(@, p.cached[1])]
  ELSE IF p.load.step = "none" THEN [p EXCEPT !.load.step = "asked"]
  ELSE p

(* mergeOverviewSession and mergeSelectedSessionSummary; if the lifecycle  *)
(* changed, the detail is loaded, too.                                     *)
Merged(e) ==
  [page EXCEPT !.cursor = e.cursor,
               !.overview[e.session] = Newer(@, e.value),
               !.detail = IF e.session = Selected THEN Newer(@, e.value) ELSE @]

Received(e) ==
  CASE e.kind = "hello"   -> {Loading(page)}
    [] e.kind = "summary" -> {Merged(e)} \cup (IF e.session = Selected THEN {Loading(Merged(e))} ELSE {})
    [] e.kind = "log"     -> {[page EXCEPT !.cursor = e.cursor,
                                           !.detail.at = IF @ < e.value.at THEN e.value.at ELSE @]}

Receive ==
  /\ link.up /\ link.channel # <<>>
  /\ LET e == Head(link.channel)
     IN /\ page' \in Received(e)
        /\ link' = [link EXCEPT !.channel = Tail(@), !.presence = @ \/ e.kind = "hello"]
  /\ UNCHANGED <<daemon, lost, faults>>

(* The detail request over HTTP, which does not wait for the socket.       *)
LoadAnswered ==
  /\ page.load.step = "asked"
  /\ page' = [page EXCEPT !.load = [step |-> "answered", value |-> daemon.state[Selected]]]
  /\ UNCHANGED <<daemon, link, lost, faults>>

LoadArrives ==
  /\ page.load.step = "answered"
  /\ page' = [page EXCEPT !.detail = Newer(@, page.load.value),
                          !.cached = <<page.load.value>>, !.load = NoLoad]
  /\ UNCHANGED <<daemon, link, lost, faults>>

LoadFails ==
  /\ page.load.step # "none"
  /\ page' = [page EXCEPT !.load = NoLoad]
  /\ UNCHANGED <<daemon, link, lost, faults>>

CacheExpires ==
  /\ page.cached # <<>>
  /\ page' = [page EXCEPT !.cached = <<>>]
  /\ UNCHANGED <<daemon, link, lost, faults>>

LiveNext ==
  \/ \E s \in Shown : SessionUpdated(s)
  \/ LogAppended \/ SocketOpens \/ Replay \/ PresenceArrives \/ SocketCut
  \/ DaemonRestarts \/ Receive \/ LoadAnswered \/ LoadArrives \/ LoadFails
  \/ CacheExpires

(* The page tries to connect again and again; what is sent on an open      *)
(* socket arrives; setImmediate runs.                                      *)
LiveFairness ==
  /\ WF_LiveVars(Replay)
  /\ WF_LiveVars(Receive)
  /\ WF_LiveVars(PresenceArrives)
  /\ WF_LiveVars(SocketOpens)

LiveSpec == LiveInit /\ [][LiveNext]_LiveVars /\ LiveFairness

-----------------------------------------------------------------------------
(* A page that is connected and has received everything shows every        *)
(* session as it is, unless an update got out of its reach in one of the   *)
(* known ways: no cursor yet, dropped from the buffer, overtaken by a live *)
(* event before a cut, or a daemon that has restarted.                     *)
NothingMissed ==
  link.up /\ link.replayed /\ link.channel = <<>> /\ ~lost => ~Behind

(* What the page shows never goes back to something older, whatever the    *)
(* order in which events, replayed events, the cached and the late answers *)
(* of a request arrive.                                                    *)
NeverOlder ==
  [][/\ \A s \in Shown : page.overview[s].content <= page'.overview[s].content
     /\ page.detail.content <= page'.detail.content]_LiveVars

(* Once the session no longer changes, the detail of the selected session  *)
(* catches up with it, also after an update that nobody can replay.        *)
SelectedCatchesUp == <>[](page.detail.content = daemon.state[Selected].content)
=============================================================================
