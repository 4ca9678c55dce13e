--------------------------- MODULE LiveUpdatesProofs --------------------------
(***************************************************************************)
(* Theorems about LiveUpdates, for any number of sessions, of updates and  *)
(* of lost connections, and any length of the replay buffer: first the     *)
(* operators, then what each step does, then the three parts of the        *)
(* invariant (the order of the values, the buffer, the socket), step by    *)
(* step.                                                                   *)
(***************************************************************************)
EXTENDS LiveUpdates, FiniteSetTheorems, WellFoundedInduction, TLAPS

Value == [content : Nat, at : Nat]
LiveEvents == [kind : {"hello", "summary", "log"}, cursor : Nat, session : Shown, value : Value]

DaemonType == [clock : Nat, state : [Shown -> Value], cursor : Nat, buffer : Seq(LiveEvents)]
LinkType   == [up : BOOLEAN, after : Nat, replayed : BOOLEAN, overtaken : BOOLEAN,
               viewing : BOOLEAN, presence : BOOLEAN, channel : Seq(LiveEvents)]
PageType   == [cursor : Nat, overview : [Shown -> Value], detail : Value,
               load : [step : {"none", "asked", "answered"}, value : Value],
               cached : Seq(Value)]

LiveTypes ==
  daemon \in DaemonType /\ link \in LinkType /\ page \in PageType /\ lost \in BOOLEAN

(* The values of a session that are shown, kept or on their way to the     *)
(* page are all states that the session has had, one after the other.      *)
OnItsWay(s, v) ==
  \/ v = daemon.state[s]
  \/ v = page.overview[s]
  \/ \E i \in 1 .. Len(link.channel) : link.channel[i].session = s /\ v = link.channel[i].value
  \/ \E i \in 1 .. Len(daemon.buffer) : daemon.buffer[i].session = s /\ v = daemon.buffer[i].value
  \/ s = Selected /\ v = page.load.value
  \/ s = Selected /\ page.cached # <<>> /\ v = page.cached[1]

SourceInv ==
  \A s \in Shown, v, w \in Value :
    OnItsWay(s, v) =>
      /\ v.content <= v.at /\ v.at <= daemon.clock /\ v.content <= daemon.state[s].content
      /\ OnItsWay(s, w) /\ v.at <= w.at => v.content <= w.content

(* A log line moves the time of the detail without its content, so that    *)
(* the detail need not be a state the session has had.                     *)
Behindhand(d) ==
  /\ d.content <= d.at /\ d.content <= daemon.state[Selected].content
  /\ \A v \in Value : OnItsWay(Selected, v) /\ d.at <= v.at => d.content <= v.content

OrderInv == SourceInv /\ Behindhand(page.detail)

LEMMA BlankValue == Blank \in Value /\ Blank.content = 0 /\ Blank.at = 0
  BY DEF Blank, Value

LEMMA NewerGives ==
  ASSUME NEW x \in Value, NEW y \in Value
  PROVE  Newer(x, y) \in Value /\ Newer(x, y) \in {x, y}
  BY DEF Newer

LEMMA BufferedGives ==
  ASSUME LiveTypes, NEW e \in LiveEvents
  PROVE  /\ Buffered(e) \in Seq(LiveEvents)
         /\ \A i \in 1 .. Len(Buffered(e)) :
              \/ Buffered(e)[i] = e
              \/ \E j \in 1 .. Len(daemon.buffer) : Buffered(e)[i] = daemon.buffer[j]
  <1> DEFINE buffer == daemon.buffer
  <1>1. buffer \in Seq(LiveEvents) /\ ReplayLimit \in Nat \ {0} /\ Len(buffer) \in Nat
    BY ReplayLimitAssumption DEF LiveTypes, DaemonType
  <1>2. Buffered(e) \in {buffer, Append(buffer, e)}
          \/ (buffer # <<>> /\ Buffered(e) = Append(Tail(buffer), e))
    BY <1>1 DEF Buffered
  <1> HIDE DEF buffer
  <1>3. CASE Buffered(e) = buffer
    BY <1>1, <1>3 DEF buffer
  <1>4. CASE Buffered(e) = Append(buffer, e)
    BY <1>1, <1>4 DEF buffer
  <1>5. CASE buffer # <<>> /\ Buffered(e) = Append(Tail(buffer), e)
    <2>1. Tail(buffer) \in Seq(LiveEvents) /\ Len(Tail(buffer)) = Len(buffer) - 1
      BY <1>1, <1>5
    <2>2. \A i \in 1 .. Len(Tail(buffer)) : Tail(buffer)[i] = buffer[i + 1] /\ i + 1 \in 1 .. Len(buffer)
      BY <1>1, <1>5, <2>1
    <2> DEFINE rest == Tail(buffer)
    <2> HIDE DEF rest
    <2>3. /\ Append(rest, e) \in Seq(LiveEvents) /\ Len(Append(rest, e)) = Len(rest) + 1
          /\ \A i \in 1 .. Len(rest) : Append(rest, e)[i] = rest[i]
          /\ Append(rest, e)[Len(rest) + 1] = e
      BY <2>1 DEF rest
    <2> QED BY <1>5, <2>1, <2>2, <2>3 DEF rest, buffer
  <1> QED BY <1>2, <1>3, <1>4, <1>5

LEMMA LeastOf ==
  ASSUME NEW T, T \subseteq Nat, T # {}
  PROVE  \E x \in T : \A y \in T : x <= y
  <1> DEFINE R == OpToRel(<, Nat)
  <1>1. IsWellFoundedOn(R, Nat)
    BY NatLessThanWellFounded
  <1>2. \A x, y \in Nat : x < y => <<x, y>> \in R
    BY DEF OpToRel
  <1> HIDE DEF R
  <1>3. PICK x \in T : \A y \in T : ~ (<<y, x>> \in R)
    BY <1>1, WFMin
  <1>4. \A y \in T : x \in Nat /\ y \in Nat /\ ~ (y < x)
    BY <1>2, <1>3
  <1>5. \A y \in T : x <= y
    BY <1>4
  <1> QED BY <1>5

Ordered(q) == \A i, j \in 1 .. Len(q) : i < j => q[i].cursor < q[j].cursor

(* The events after a cursor, as readAfter filters them.                   *)
LEMMA UnpassedIs ==
  ASSUME LiveTypes, Ordered(daemon.buffer), NEW c \in Nat
  PROVE  /\ Unpassed(c) \in Seq(LiveEvents) /\ Ordered(Unpassed(c))
         /\ \A i \in 1 .. Len(Unpassed(c)) :
              \E j \in 1 .. Len(daemon.buffer) :
                Unpassed(c)[i] = daemon.buffer[j] /\ c < daemon.buffer[j].cursor
         /\ \A j \in 1 .. Len(daemon.buffer) :
              c < daemon.buffer[j].cursor =>
                \E i \in 1 .. Len(Unpassed(c)) : Unpassed(c)[i] = daemon.buffer[j]
  <1> DEFINE buffer == daemon.buffer
             T == {k \in 1 .. Len(buffer) + 1 : k <= Len(buffer) => c < buffer[k].cursor}
  <1>1. /\ buffer \in Seq(LiveEvents) /\ Len(buffer) \in Nat
        /\ \A i \in 1 .. Len(buffer) : buffer[i].cursor \in Nat
    <2>1. buffer \in Seq(LiveEvents) /\ Len(buffer) \in Nat
      BY DEF LiveTypes, DaemonType
    <2> HIDE DEF buffer
    <2>2. \A i \in 1 .. Len(buffer) : buffer[i] \in LiveEvents
      BY <2>1
    <2> QED BY <2>1, <2>2 DEF LiveEvents
  <1>2. T \subseteq Nat /\ Len(buffer) + 1 \in T
    BY <1>1
  <1>3. PICK m \in T : \A k \in T : m <= k
    BY <1>2, LeastOf
  <1>4. m \in 1 .. Len(buffer) + 1 /\ (m <= Len(buffer) => c < buffer[m].cursor)
    OBVIOUS
  <1>5. \A i \in 1 .. Len(buffer) : buffer[i].cursor <= c <=> i < m
    <2> SUFFICES ASSUME NEW i \in 1 .. Len(buffer) PROVE buffer[i].cursor <= c <=> i < m
      OBVIOUS
    <2>1. CASE i < m
      <3>1. i \notin T
        BY <1>1, <1>3, <1>4, <2>1
      <3> QED BY <1>1, <2>1, <3>1
    <2>2. CASE i = m
      BY <1>1, <1>4, <2>2
    <2>3. CASE i > m
      BY <1>1, <1>4, <2>3 DEF Ordered
    <2> QED BY <1>1, <1>4, <2>1, <2>2, <2>3
  <1>6. Passed(c) = 1 .. m - 1
    BY <1>1, <1>4, <1>5 DEF Passed
  <1>7. Cardinality(Passed(c)) = m - 1
    BY <1>1, <1>4, <1>6, FS_Interval
  <1>8. Unpassed(c) = SubSeq(buffer, m, Len(buffer))
    BY <1>1, <1>4, <1>7 DEF Unpassed
  <1> HIDE DEF buffer, T
  <1>9. /\ SubSeq(buffer, m, Len(buffer)) \in Seq(LiveEvents)
        /\ Len(SubSeq(buffer, m, Len(buffer))) = Len(buffer) - m + 1
        /\ \A i \in 1 .. Len(buffer) - m + 1 : SubSeq(buffer, m, Len(buffer))[i] = buffer[m + i - 1]
    BY <1>1, <1>4
  <1> DEFINE rest == Unpassed(c)
  <1>10. /\ rest \in Seq(LiveEvents) /\ Len(rest) = Len(buffer) - m + 1
         /\ \A i \in 1 .. Len(rest) : rest[i] = buffer[m + i - 1] /\ m + i - 1 \in 1 .. Len(buffer)
    BY <1>1, <1>4, <1>8, <1>9
  <1> HIDE DEF rest
  <1>11. Ordered(rest)
    <2> SUFFICES ASSUME NEW i \in 1 .. Len(rest), NEW j \in 1 .. Len(rest), i < j
                 PROVE  rest[i].cursor < rest[j].cursor
      BY DEF Ordered
    <2>1. m + i - 1 \in 1 .. Len(buffer) /\ m + j - 1 \in 1 .. Len(buffer) /\ m + i - 1 < m + j - 1
      BY <1>1, <1>4, <1>10
    <2>2. buffer[m + i - 1].cursor < buffer[m + j - 1].cursor
      BY <2>1 DEF Ordered, buffer
    <2> QED BY <1>10, <2>2
  <1>12. \A i \in 1 .. Len(rest) :
           \E j \in 1 .. Len(buffer) : rest[i] = buffer[j] /\ c < buffer[j].cursor
    BY <1>1, <1>4, <1>5, <1>10
  <1>13. \A j \in 1 .. Len(buffer) :
           c < buffer[j].cursor => \E i \in 1 .. Len(rest) : rest[i] = buffer[j]
    <2> SUFFICES ASSUME NEW j \in 1 .. Len(buffer), c < buffer[j].cursor
                 PROVE  \E i \in 1 .. Len(rest) : rest[i] = buffer[j]
      OBVIOUS
    <2>1. j - m + 1 \in 1 .. Len(rest)
      BY <1>1, <1>4, <1>5, <1>10
    <2>2. rest[j - m + 1] = buffer[j]
      BY <1>1, <1>4, <1>10, <2>1
    <2> QED BY <2>1, <2>2
  <1> QED BY <1>10, <1>11, <1>12, <1>13 DEF rest, buffer

(* What the steps of the daemon do.                                        *)
LEMMA BroadcastIs ==
  ASSUME LiveTypes, NEW e \in LiveEvents, NEW activity \in DaemonType, NEW heard \in BOOLEAN,
         Broadcast(e, activity, heard)
  PROVE  /\ daemon' \in DaemonType /\ daemon'.clock = activity.clock
         /\ daemon'.state = activity.state
         /\ daemon'.cursor = e.cursor /\ daemon'.buffer = Buffered(e)
         /\ link' \in LinkType /\ lost' \in BOOLEAN /\ lost' = (lost \/ Evicts(e))
         /\ link'.up = link.up /\ link'.after = link.after /\ link'.replayed = link.replayed
         /\ link'.viewing = link.viewing
         /\ link.up /\ heard => /\ link'.channel = Append(link.channel, e)
                                /\ link'.overtaken = (link.overtaken \/ ~link.replayed)
         /\ ~(link.up /\ heard) => link' = link
  <1>1. link \in LinkType /\ Buffered(e) \in Seq(LiveEvents) /\ e.cursor \in Nat
    BY BufferedGives DEF LiveTypes, LiveEvents
  <1>2. daemon' = [activity EXCEPT !.cursor = e.cursor, !.buffer = Buffered(e)]
    BY DEF Broadcast
  <1>3. daemon' \in DaemonType /\ daemon'.clock = activity.clock
         /\ daemon'.state = activity.state
         /\ daemon'.cursor = e.cursor /\ daemon'.buffer = Buffered(e)
    BY <1>1, <1>2 DEF DaemonType
  <1>4. Append(link.channel, e) \in Seq(LiveEvents)
    BY <1>1 DEF LinkType
  <1>5. (link.overtaken \/ ~link.replayed) \in BOOLEAN /\ (lost \/ Evicts(e)) \in BOOLEAN
    OBVIOUS
  <1>6. lost' = (lost \/ Evicts(e))
    BY DEF Broadcast
  <1>7. CASE link.up /\ heard
    <2> DEFINE ch == Append(link.channel, e)
               ov == link.overtaken \/ ~link.replayed
    <2>1. link' = [link EXCEPT !.channel = ch, !.overtaken = ov]
      BY <1>7 DEF Broadcast
    <2>2. ch \in Seq(LiveEvents) /\ ov \in BOOLEAN
      BY <1>4
    <2> HIDE DEF ch, ov
    <2>3. link' \in LinkType /\ link'.up = link.up /\ link'.after = link.after
           /\ link'.replayed = link.replayed /\ link'.viewing = link.viewing
           /\ link'.channel = ch /\ link'.overtaken = ov
      BY <1>1, <2>1, <2>2 DEF LinkType
    <2> QED BY <1>3, <1>5, <1>6, <1>7, <2>3 DEF ch, ov
  <1>8. CASE ~(link.up /\ heard)
    <2>1. link' = link
      BY <1>8 DEF Broadcast
    <2> QED BY <1>1, <1>3, <1>5, <1>6, <1>8, <2>1
  <1> QED BY <1>7, <1>8

Update(s, e, new) ==
  /\ new.content = daemon.clock + 1 /\ new.at = daemon.clock + 1
  /\ e.kind = "summary" /\ e.cursor = daemon.cursor + 1 /\ e.session = s /\ e.value = new
  /\ daemon' \in DaemonType /\ daemon'.clock = daemon.clock + 1
  /\ daemon'.state = [daemon.state EXCEPT ![s] = new]
  /\ daemon'.cursor = daemon.cursor + 1 /\ daemon'.buffer = Buffered(e)
  /\ link' \in LinkType /\ lost' \in BOOLEAN /\ lost' = (lost \/ Evicts(e))
  /\ link'.up = link.up /\ link'.after = link.after /\ link'.replayed = link.replayed
  /\ link'.viewing = link.viewing
  /\ link.up => /\ link'.channel = Append(link.channel, e)
                /\ link'.overtaken = (link.overtaken \/ ~link.replayed)
  /\ ~link.up => link' = link
  /\ page' = page

LEMMA UpdatedIs ==
  ASSUME LiveTypes, NEW s \in Shown, SessionUpdated(s)
  PROVE  \E e \in LiveEvents, new \in Value : Update(s, e, new)
  <1> DEFINE now == daemon.clock + 1
             new == [content |-> now, at |-> now]
             e == LiveEvent("summary", s, new)
             act == [daemon EXCEPT !.clock = now, !.state[s] = new]
  <1>1. daemon \in DaemonType /\ daemon.clock \in Nat /\ daemon.cursor \in Nat
    BY DEF LiveTypes, DaemonType
  <1>2. new \in Value /\ new.content = now /\ new.at = now /\ now \in Nat
    BY <1>1 DEF Value
  <1>3. /\ Broadcast(e, act, TRUE) /\ page' = page
    BY DEF SessionUpdated
  <1> HIDE DEF new
  <1>4. e \in LiveEvents /\ e.kind = "summary" /\ e.cursor = daemon.cursor + 1
         /\ e.session = s /\ e.value = new
    BY <1>1, <1>2 DEF LiveEvent, LiveEvents
  <1>5. act \in DaemonType /\ act.clock = now /\ act.state = [daemon.state EXCEPT ![s] = new]
    BY <1>1, <1>2 DEF DaemonType
  <1> HIDE DEF e, act
  <1>6. Update(s, e, new)
    BY <1>2, <1>3, <1>4, <1>5, BroadcastIs DEF Update
  <1> QED BY <1>2, <1>4, <1>6

LogLine(e, new) ==
  /\ new.content = daemon.state[Selected].content /\ new.at = daemon.clock + 1
  /\ e.kind = "log" /\ e.cursor = daemon.cursor + 1 /\ e.session = Selected
  /\ e.value = new
  /\ daemon' \in DaemonType /\ daemon'.clock = daemon.clock + 1
  /\ daemon'.state = [daemon.state EXCEPT ![Selected] = new]
  /\ daemon'.cursor = daemon.cursor + 1 /\ daemon'.buffer = daemon.buffer
  /\ link' \in LinkType /\ lost' = lost
  /\ link'.up = link.up /\ link'.after = link.after /\ link'.replayed = link.replayed
  /\ link'.viewing = link.viewing
  /\ \/ link' = link
     \/ /\ link.up /\ link.viewing
        /\ link'.channel = Append(link.channel, e)
        /\ link'.overtaken = (link.overtaken \/ ~link.replayed)
  /\ page' = page

LEMMA LoggedIs ==
  ASSUME LiveTypes, LogAppended
  PROVE  \E e \in LiveEvents, new \in Value : LogLine(e, new)
  <1> DEFINE now == daemon.clock + 1
             new == [daemon.state[Selected] EXCEPT !.at = now]
             e == LiveEvent("log", Selected, new)
             act == [daemon EXCEPT !.clock = now, !.state[Selected] = new]
  <1>1. /\ daemon \in DaemonType /\ daemon.clock \in Nat /\ daemon.cursor \in Nat
        /\ daemon.state[Selected] \in Value /\ link.viewing \in BOOLEAN
    BY SelectedAssumption DEF LiveTypes, DaemonType, LinkType
  <1>2. new \in Value /\ new.content = daemon.state[Selected].content /\ new.at = now /\ now \in Nat
    BY <1>1 DEF Value
  <1>3. PICK heard \in {FALSE, link.viewing} : Broadcast(e, act, heard) /\ page' = page
    BY DEF LogAppended
  <1> HIDE DEF new
  <1>4. e \in LiveEvents /\ e.kind = "log" /\ e.cursor = daemon.cursor + 1
         /\ e.session = Selected /\ e.value = new
    BY <1>1, <1>2, SelectedAssumption DEF LiveEvent, LiveEvents
  <1>5. act \in DaemonType /\ act.clock = now
         /\ act.state = [daemon.state EXCEPT ![Selected] = new]
    BY <1>1, <1>2 DEF DaemonType
  <1>6. Buffered(e) = daemon.buffer /\ Evicts(e) = FALSE
    BY <1>4 DEF Buffered, Evicts
  <1> HIDE DEF e, act
  <1>7. heard \in BOOLEAN /\ (heard => link.viewing)
    BY <1>1, <1>3
  <1>8. lost \in BOOLEAN
    BY DEF LiveTypes
  <1>9. /\ daemon' \in DaemonType /\ daemon'.clock = daemon.clock + 1
        /\ daemon'.state = [daemon.state EXCEPT ![Selected] = new]
        /\ daemon'.cursor = daemon.cursor + 1 /\ daemon'.buffer = daemon.buffer
        /\ link' \in LinkType
        /\ link'.up = link.up /\ link'.after = link.after /\ link'.replayed = link.replayed
        /\ link'.viewing = link.viewing
        /\ (link.up /\ heard) => /\ link'.channel = Append(link.channel, e)
                                /\ link'.overtaken = (link.overtaken \/ ~link.replayed)
        /\ (~(link.up /\ heard)) => link' = link
    BY <1>3, <1>4, <1>5, <1>6, <1>7, BroadcastIs
  <1>10. lost' = lost
    BY <1>3, <1>6, <1>8 DEF Broadcast
  <1>11. LogLine(e, new)
    BY <1>2, <1>3, <1>4, <1>7, <1>9, <1>10 DEF LogLine
  <1> QED BY <1>2, <1>4, <1>11

LEMMA NoticeIs ==
  ASSUME LiveTypes
  PROVE  /\ PresenceNotice \in LiveEvents /\ PresenceNotice.kind = "summary"
         /\ PresenceNotice.cursor = daemon.cursor + 1 /\ PresenceNotice.session = Selected
         /\ PresenceNotice.value = daemon.state[Selected]
         /\ Buffered(PresenceNotice) \in Seq(LiveEvents)
  <1>1. daemon.cursor \in Nat /\ daemon.state[Selected] \in Value /\ Selected \in Shown
    BY SelectedAssumption DEF LiveTypes, DaemonType
  <1>2. /\ PresenceNotice \in LiveEvents /\ PresenceNotice.kind = "summary"
        /\ PresenceNotice.cursor = daemon.cursor + 1 /\ PresenceNotice.session = Selected
        /\ PresenceNotice.value = daemon.state[Selected]
    BY <1>1 DEF PresenceNotice, LiveEvent, LiveEvents
  <1> QED BY <1>2, BufferedGives

LEMMA PresentIs ==
  ASSUME LiveTypes, PresenceArrives
  PROVE  /\ link.up /\ link.replayed
         /\ daemon' \in DaemonType /\ daemon'.clock = daemon.clock /\ daemon'.state = daemon.state
         /\ daemon'.cursor = daemon.cursor + 1 /\ daemon'.buffer = Buffered(PresenceNotice)
         /\ link' \in LinkType /\ link'.up = link.up /\ link'.after = link.after
         /\ link'.replayed = link.replayed /\ link'.overtaken = link.overtaken
         /\ link'.channel = Append(link.channel, PresenceNotice)
         /\ page' = page /\ lost' = lost
  <1> DEFINE n == PresenceNotice
             b == Buffered(n)
             ch == Append(link.channel, n)
  <1>1. /\ daemon \in DaemonType /\ link \in LinkType /\ n \in LiveEvents
        /\ b \in Seq(LiveEvents) /\ daemon.cursor + 1 \in Nat
    BY NoticeIs DEF LiveTypes, DaemonType
  <1>2. /\ link.up /\ link.replayed /\ page' = page /\ lost' = lost
        /\ daemon' = [daemon EXCEPT !.cursor = @ + 1, !.buffer = b]
        /\ link' = [link EXCEPT !.presence = FALSE, !.viewing = TRUE, !.channel = ch]
    BY <1>1 DEF PresenceArrives, LinkType
  <1>3. ch \in Seq(LiveEvents)
    BY <1>1 DEF LinkType
  <1> HIDE DEF n, b, ch
  <1>4. /\ daemon' \in DaemonType /\ daemon'.clock = daemon.clock /\ daemon'.state = daemon.state
        /\ daemon'.cursor = daemon.cursor + 1 /\ daemon'.buffer = b
    BY <1>1, <1>2 DEF DaemonType
  <1>5. /\ link' \in LinkType /\ link'.up = link.up /\ link'.after = link.after
        /\ link'.replayed = link.replayed /\ link'.overtaken = link.overtaken
        /\ link'.channel = ch
    BY <1>1, <1>2, <1>3 DEF LinkType
  <1> QED BY <1>2, <1>4, <1>5 DEF n, b, ch

LEMMA DownIs ==
  /\ DownLink \in LinkType /\ DownLink.up = FALSE /\ DownLink.channel = <<>>
  /\ DownLink.viewing = FALSE /\ DownLink.overtaken = FALSE /\ DownLink.after = 0
  /\ DownLink.replayed = TRUE
  BY DEF DownLink, LinkType

LEMMA CutIs ==
  ASSUME LiveTypes, SocketCut
  PROVE  /\ link.up /\ link' = DownLink /\ page' = page
         /\ daemon' \in DaemonType /\ daemon'.clock = daemon.clock /\ daemon'.state = daemon.state
         /\ lost' = (lost \/ OutOfReach(daemon'.buffer)) /\ lost' \in BOOLEAN
         /\ \/ daemon' = daemon
            \/ /\ link.viewing
               /\ daemon'.cursor = daemon.cursor + 1 /\ daemon'.buffer = Buffered(PresenceNotice)
  <1> DEFINE b == Buffered(PresenceNotice)
  <1>1. daemon \in DaemonType /\ b \in Seq(LiveEvents) /\ daemon.cursor + 1 \in Nat
    BY NoticeIs DEF LiveTypes, DaemonType
  <1>2. /\ link.up /\ link' = DownLink /\ page' = page
        /\ lost' = (lost \/ OutOfReach(daemon'.buffer))
        /\ daemon' = IF link.viewing THEN [daemon EXCEPT !.cursor = @ + 1, !.buffer = b] ELSE daemon
    BY DEF SocketCut
  <1> HIDE DEF b
  <1>3. CASE ~link.viewing
    BY <1>1, <1>2, <1>3
  <1>4. CASE link.viewing
    <2>1. daemon' = [daemon EXCEPT !.cursor = @ + 1, !.buffer = b]
      BY <1>2, <1>4
    <2>2. /\ daemon' \in DaemonType /\ daemon'.clock = daemon.clock /\ daemon'.state = daemon.state
          /\ daemon'.cursor = daemon.cursor + 1 /\ daemon'.buffer = b
      BY <1>1, <2>1 DEF DaemonType
    <2> QED BY <1>2, <1>4, <2>2 DEF b
  <1> QED BY <1>3, <1>4

LEMMA RestartIs ==
  ASSUME LiveTypes, DaemonRestarts
  PROVE  /\ daemon' \in DaemonType /\ daemon'.clock = daemon.clock /\ daemon'.state = daemon.state
         /\ daemon'.cursor = 0 /\ daemon'.buffer = <<>>
         /\ link' = DownLink /\ lost' = TRUE
         /\ page' \in PageType /\ page'.overview = page.overview /\ page'.detail = page.detail
         /\ page'.cached = page.cached /\ page'.load.value \in {page.load.value, Blank}
  <1>1. daemon \in DaemonType /\ page \in PageType /\ NoLoad.value = Blank
        /\ NoLoad \in [step : {"none", "asked", "answered"}, value : Value]
    BY BlankValue DEF LiveTypes, NoLoad
  <1> DEFINE none == <<>>
  <1>2. daemon' = [daemon EXCEPT !.cursor = 0, !.buffer = none] /\ link' = DownLink /\ lost' = TRUE
        /\ page' = [page EXCEPT !.load = IF @.step = "asked" THEN NoLoad ELSE @]
    BY DEF DaemonRestarts
  <1>5. none \in Seq(LiveEvents)
    OBVIOUS
  <1> HIDE DEF none
  <1>3. /\ daemon' \in DaemonType /\ daemon'.clock = daemon.clock /\ daemon'.state = daemon.state
        /\ daemon'.cursor = 0 /\ daemon'.buffer = none
    BY <1>1, <1>2, <1>5 DEF DaemonType
  <1>4. /\ page' \in PageType /\ page'.overview = page.overview /\ page'.detail = page.detail
        /\ page'.cached = page.cached /\ page'.load.value \in {page.load.value, Blank}
    BY <1>1, <1>2 DEF PageType
  <1> QED BY <1>2, <1>3, <1>4 DEF none

LEMMA OpensIs ==
  ASSUME LiveTypes, SocketOpens
  PROVE  /\ ~link.up /\ daemon' = daemon /\ page' = page
         /\ lost' = (lost \/ (page.cursor = 0 /\ Behind)) /\ lost' \in BOOLEAN
         /\ link' \in LinkType /\ link'.up = TRUE /\ link'.after = page.cursor
         /\ link'.replayed = FALSE /\ link'.viewing = FALSE /\ link'.overtaken = FALSE
         /\ link'.channel = <<Hello>> /\ Hello \in LiveEvents /\ Hello.kind = "hello"
         /\ Hello.cursor = 0 /\ Hello.value = Blank
  <1>1. /\ Hello \in LiveEvents /\ Hello.kind = "hello" /\ Hello.cursor = 0 /\ Hello.value = Blank
        /\ page.cursor \in Nat
    BY BlankValue, SelectedAssumption DEF Hello, LiveEvents, LiveTypes, PageType
  <1>2. <<Hello>> \in Seq(LiveEvents)
    BY <1>1
  <1> DEFINE ch == <<Hello>>
  <1>3. link' = [DownLink EXCEPT !.up = TRUE, !.after = page.cursor, !.replayed = FALSE,
                                 !.channel = ch]
    BY DEF SocketOpens
  <1>4. ch \in Seq(LiveEvents)
    BY <1>2
  <1> HIDE DEF ch
  <1>5. /\ link' \in LinkType /\ link'.up = TRUE /\ link'.after = page.cursor
        /\ link'.replayed = FALSE /\ link'.viewing = FALSE /\ link'.overtaken = FALSE
        /\ link'.channel = ch
    BY <1>1, <1>3, <1>4 DEF DownLink, LinkType
  <1>6. ~link.up /\ daemon' = daemon /\ page' = page /\ lost' = (lost \/ (page.cursor = 0 /\ Behind))
    BY DEF SocketOpens
  <1>7. (lost \/ (page.cursor = 0 /\ Behind)) \in BOOLEAN
    OBVIOUS
  <1> QED BY <1>1, <1>5, <1>6, <1>7 DEF ch

LEMMA ReplayIs ==
  ASSUME LiveTypes, Ordered(daemon.buffer), Replay
  PROVE  /\ link.up /\ ~link.replayed /\ daemon' = daemon /\ page' = page /\ lost' = lost
         /\ link' \in LinkType /\ link'.up = link.up /\ link'.after = link.after
         /\ link'.replayed = TRUE /\ link'.viewing = link.viewing
         /\ link'.overtaken = link.overtaken
         /\ link'.channel = link.channel \o ReadAfter(link.after)
         /\ ReadAfter(link.after) \in Seq(LiveEvents)
  <1> DEFINE ch == link.channel \o ReadAfter(link.after)
  <1>1. link \in LinkType /\ link.after \in Nat /\ link.channel \in Seq(LiveEvents)
    BY DEF LiveTypes, LinkType
  <1>2. ReadAfter(link.after) \in Seq(LiveEvents)
    BY <1>1, UnpassedIs DEF ReadAfter
  <1>3. ch \in Seq(LiveEvents)
    BY <1>1, <1>2
  <1>4. /\ link.up /\ ~link.replayed /\ daemon' = daemon /\ page' = page /\ lost' = lost
        /\ link' = [link EXCEPT !.replayed = TRUE, !.channel = ch]
    BY <1>1 DEF Replay, LinkType
  <1> HIDE DEF ch
  <1>5. /\ link' \in LinkType /\ link'.up = link.up /\ link'.after = link.after
        /\ link'.replayed = TRUE /\ link'.viewing = link.viewing
        /\ link'.overtaken = link.overtaken /\ link'.channel = ch
    BY <1>1, <1>3, <1>4 DEF LinkType
  <1> QED BY <1>2, <1>4, <1>5 DEF ch

(* What the steps of the page do.                                          *)
LEMMA LoadingIs ==
  ASSUME NEW p \in PageType
  PROVE  /\ Loading(p) \in PageType /\ Loading(p).cursor = p.cursor
         /\ Loading(p).overview = p.overview /\ Loading(p).cached = p.cached
         /\ Loading(p).load.value = p.load.value
         /\ \/ Loading(p).detail = p.detail
            \/ /\ p.cached # <<>> /\ p.cached[1] \in Value
               /\ Loading(p).detail = Newer(p.detail, p.cached[1])
  <1>1. CASE p.cached # <<>>
    <2>1. p.cached[1] \in Value /\ p.detail \in Value
      BY <1>1 DEF PageType
    <2>2. Newer(p.detail, p.cached[1]) \in Value
      BY <2>1, NewerGives
    <2> DEFINE d == Newer(p.detail, p.cached[1])
    <2>3. Loading(p) = [p EXCEPT !.detail = d]
      BY <1>1 DEF Loading
    <2>4. d \in Value
      BY <2>2
    <2> HIDE DEF d
    <2>5. /\ Loading(p) \in PageType /\ Loading(p).cursor = p.cursor
          /\ Loading(p).overview = p.overview /\ Loading(p).cached = p.cached
          /\ Loading(p).load = p.load /\ Loading(p).detail = d
      BY <2>3, <2>4 DEF PageType
    <2> QED BY <1>1, <2>1, <2>5 DEF d
  <1>2. CASE p.cached = <<>> /\ p.load.step = "none"
    <2>1. Loading(p) = [p EXCEPT !.load.step = "asked"]
      BY <1>2 DEF Loading
    <2> QED BY <2>1 DEF PageType
  <1>3. CASE p.cached = <<>> /\ p.load.step # "none"
    BY <1>3 DEF Loading
  <1> QED BY <1>1, <1>2, <1>3

(* The detail after a summary.                                             *)
MergedDetail(e) == IF e.session = Selected THEN Newer(page.detail, e.value) ELSE page.detail

LEMMA MergedIs ==
  ASSUME LiveTypes, NEW e \in LiveEvents
  PROVE  /\ Merged(e) \in PageType /\ Merged(e).cursor = e.cursor
         /\ Merged(e).overview = [page.overview EXCEPT ![e.session] = Newer(@, e.value)]
         /\ Merged(e).cached = page.cached /\ Merged(e).load = page.load
         /\ Merged(e).detail = MergedDetail(e) /\ MergedDetail(e) \in Value
  <1>1. /\ page \in PageType /\ page.detail \in Value /\ page.overview \in [Shown -> Value]
        /\ e.session \in Shown /\ e.value \in Value /\ e.cursor \in Nat
    BY DEF LiveTypes, PageType, LiveEvents
  <1>2. MergedDetail(e) \in Value
    BY <1>1, NewerGives DEF MergedDetail
  <1> DEFINE o == [page.overview EXCEPT ![e.session] = Newer(@, e.value)]
             d == MergedDetail(e)
  <1>3. Newer(page.overview[e.session], e.value) \in Value
    BY <1>1, NewerGives
  <1>4. o \in [Shown -> Value] /\ d \in Value
    BY <1>1, <1>2, <1>3
  <1>5. Merged(e) = [page EXCEPT !.cursor = e.cursor, !.overview = o, !.detail = d]
    BY <1>1 DEF Merged, MergedDetail, PageType
  <1> HIDE DEF o, d
  <1>6. /\ Merged(e) \in PageType /\ Merged(e).cursor = e.cursor /\ Merged(e).overview = o
        /\ Merged(e).cached = page.cached /\ Merged(e).load = page.load
        /\ Merged(e).detail = d
    BY <1>1, <1>4, <1>5 DEF PageType
  <1> QED BY <1>2, <1>6 DEF o, d

LEMMA ReceiveIs ==
  ASSUME LiveTypes, Receive
  PROVE  \E e \in LiveEvents :
           /\ link.up /\ link.channel # <<>> /\ e = link.channel[1]
           /\ daemon' = daemon /\ lost' = lost
           /\ link' \in LinkType /\ link'.up = link.up /\ link'.after = link.after
           /\ link'.replayed = link.replayed /\ link'.viewing = link.viewing
           /\ link'.overtaken = link.overtaken /\ link'.channel = Tail(link.channel)
           /\ page' \in PageType /\ page'.cached = page.cached
           /\ page'.load.value = page.load.value
           /\ page'.cursor = IF e.kind = "hello" THEN page.cursor ELSE e.cursor
           /\ page'.overview = IF e.kind = "summary"
                               THEN [page.overview EXCEPT ![e.session] = Newer(@, e.value)]
                               ELSE page.overview
           /\ \E d \in Value :
                /\ \/ d = page.detail
                   \/ e.session = Selected /\ d = Newer(page.detail, e.value)
                   \/ d.content = page.detail.content /\ page.detail.at <= d.at
                /\ \/ page'.detail = d
                   \/ /\ page.cached # <<>> /\ page.cached[1] \in Value
                      /\ page'.detail = Newer(d, page.cached[1])
  <1> DEFINE e == Head(link.channel)
  <1>1. /\ link \in LinkType /\ page \in PageType /\ link.channel \in Seq(LiveEvents)
        /\ page.detail \in Value
    BY DEF LiveTypes, LinkType, PageType
  <1>2. link.up /\ link.channel # <<>> /\ daemon' = daemon /\ lost' = lost
        /\ page' \in Received(e)
    BY DEF Receive
  <1>3. e \in LiveEvents /\ e = link.channel[1] /\ Tail(link.channel) \in Seq(LiveEvents)
    BY <1>1, <1>2
  <1> DEFINE rest == Tail(link.channel)
             pr   == link.presence \/ e.kind = "hello"
  <1>4. link' = [link EXCEPT !.channel = rest, !.presence = pr]
    BY <1>1 DEF Receive, LinkType
  <1>5. rest \in Seq(LiveEvents) /\ pr \in BOOLEAN
    BY <1>3
  <1> HIDE DEF rest, pr
  <1>6. /\ link' \in LinkType /\ link'.up = link.up /\ link'.after = link.after
        /\ link'.replayed = link.replayed /\ link'.viewing = link.viewing
        /\ link'.overtaken = link.overtaken /\ link'.channel = rest
    BY <1>1, <1>4, <1>5 DEF LinkType
  <1> HIDE DEF e
  <1> DEFINE Done ==
        /\ page' \in PageType /\ page'.cached = page.cached
        /\ page'.load.value = page.load.value
        /\ page'.cursor = (IF e.kind = "hello" THEN page.cursor ELSE e.cursor)
        /\ page'.overview = (IF e.kind = "summary"
                             THEN [page.overview EXCEPT ![e.session] = Newer(@, e.value)]
                             ELSE page.overview)
        /\ \E d \in Value :
             /\ \/ d = page.detail
                \/ e.session = Selected /\ d = Newer(page.detail, e.value)
                \/ d.content = page.detail.content /\ page.detail.at <= d.at
             /\ \/ page'.detail = d
                \/ /\ page.cached # <<>> /\ page.cached[1] \in Value
                   /\ page'.detail = Newer(d, page.cached[1])
  <1>7. Done
    <2>1. CASE e.kind = "hello"
      <3>1. page' = Loading(page)
        BY <1>2, <2>1 DEF Received
      <3> QED BY <1>1, <2>1, <3>1, LoadingIs
    <2>2. CASE e.kind = "summary"
      <3>1. page' = Merged(e) \/ page' = Loading(Merged(e))
        BY <1>2, <2>2 DEF Received
      <3>2. /\ Merged(e) \in PageType /\ Merged(e).cursor = e.cursor
            /\ Merged(e).overview = [page.overview EXCEPT ![e.session] = Newer(@, e.value)]
            /\ Merged(e).cached = page.cached /\ Merged(e).load = page.load
            /\ Merged(e).detail = MergedDetail(e) /\ MergedDetail(e) \in Value
        BY <1>3, MergedIs
      <3>3. MergedDetail(e) = page.detail
              \/ (e.session = Selected /\ MergedDetail(e) = Newer(page.detail, e.value))
        BY DEF MergedDetail
      <3>4. CASE page' = Merged(e)
        BY <2>2, <3>2, <3>3, <3>4
      <3>5. CASE page' = Loading(Merged(e))
        <4>1. /\ page' \in PageType /\ page'.cursor = e.cursor
              /\ page'.overview = Merged(e).overview /\ page'.cached = page.cached
              /\ page'.load.value = page.load.value
              /\ \/ page'.detail = MergedDetail(e)
                 \/ /\ page.cached # <<>> /\ page.cached[1] \in Value
                    /\ page'.detail = Newer(MergedDetail(e), page.cached[1])
          BY <3>2, <3>5, LoadingIs
        <4> QED BY <2>2, <3>2, <3>3, <4>1
      <3> QED BY <3>1, <3>4, <3>5
    <2>3. CASE e.kind = "log"
      <3> DEFINE d == [page.detail EXCEPT !.at = IF @ < e.value.at THEN e.value.at ELSE @]
      <3>1. e.cursor \in Nat /\ e.value \in Value
        BY <1>3 DEF LiveEvents
      <3>2. d \in Value /\ d.content = page.detail.content /\ page.detail.at <= d.at
        BY <1>1, <3>1 DEF Value
      <3>3. page' = [page EXCEPT !.cursor = e.cursor, !.detail = d]
        BY <1>1, <1>2, <2>3 DEF Received, PageType, Value
      <3> HIDE DEF d
      <3>4. /\ page' \in PageType /\ page'.cached = page.cached /\ page'.load = page.load
            /\ page'.cursor = e.cursor /\ page'.overview = page.overview /\ page'.detail = d
        BY <1>1, <3>1, <3>2, <3>3 DEF PageType
      <3> QED BY <2>3, <3>2, <3>4
    <2> QED BY <1>3, <2>1, <2>2, <2>3 DEF LiveEvents
  <1> QED BY <1>2, <1>3, <1>6, <1>7 DEF rest

LEMMA AnsweredIs ==
  ASSUME LiveTypes, LoadAnswered
  PROVE  /\ daemon' = daemon /\ link' = link /\ lost' = lost
         /\ page' \in PageType /\ page'.cursor = page.cursor /\ page'.overview = page.overview
         /\ page'.detail = page.detail /\ page'.cached = page.cached
         /\ page'.load.value = daemon.state[Selected]
  <1> DEFINE l == [step |-> "answered", value |-> daemon.state[Selected]]
  <1>1. page \in PageType /\ daemon.state[Selected] \in Value
    BY SelectedAssumption DEF LiveTypes, DaemonType
  <1>2. l \in [step : {"none", "asked", "answered"}, value : Value]
         /\ l.value = daemon.state[Selected]
    BY <1>1
  <1>3. page' = [page EXCEPT !.load = l] /\ daemon' = daemon /\ link' = link /\ lost' = lost
    BY DEF LoadAnswered
  <1> HIDE DEF l
  <1> QED BY <1>1, <1>2, <1>3 DEF PageType

LEMMA ArrivesIs ==
  ASSUME LiveTypes, LoadArrives
  PROVE  /\ daemon' = daemon /\ link' = link /\ lost' = lost
         /\ page' \in PageType /\ page'.cursor = page.cursor /\ page'.overview = page.overview
         /\ page'.detail = Newer(page.detail, page.load.value) /\ page.load.value \in Value
         /\ page'.cached[1] = page.load.value /\ page'.load.value = Blank
  <1>1. /\ page \in PageType /\ page.load.value \in Value /\ page.detail \in Value
        /\ NoLoad.value = Blank /\ NoLoad \in [step : {"none", "asked", "answered"}, value : Value]
    BY BlankValue DEF LiveTypes, PageType, NoLoad
  <1> DEFINE d == Newer(page.detail, page.load.value)
             c == <<page.load.value>>
  <1>2. d \in Value /\ c \in Seq(Value) /\ c[1] = page.load.value
    BY <1>1, NewerGives
  <1>3. /\ page' = [page EXCEPT !.detail = d, !.cached = c, !.load = NoLoad]
        /\ daemon' = daemon /\ link' = link /\ lost' = lost
    BY <1>1 DEF LoadArrives, PageType
  <1> HIDE DEF d, c
  <1>4. /\ page' \in PageType /\ page'.cursor = page.cursor /\ page'.overview = page.overview
        /\ page'.detail = d /\ page'.cached = c /\ page'.load = NoLoad
    BY <1>1, <1>2, <1>3 DEF PageType
  <1> QED BY <1>1, <1>2, <1>3, <1>4 DEF d

LEMMA ForgetsIs ==
  ASSUME LiveTypes, LoadFails \/ CacheExpires
  PROVE  /\ daemon' = daemon /\ link' = link /\ lost' = lost
         /\ page' \in PageType /\ page'.cursor = page.cursor /\ page'.overview = page.overview
         /\ page'.detail = page.detail
         /\ page'.cached = page.cached \/ page'.cached = <<>>
         /\ page'.load.value \in {page.load.value, Blank}
  <1>1. /\ page \in PageType /\ NoLoad.value = Blank
        /\ NoLoad \in [step : {"none", "asked", "answered"}, value : Value]
    BY BlankValue DEF LiveTypes, NoLoad
  <1>2. CASE LoadFails
    <2>1. page' = [page EXCEPT !.load = NoLoad] /\ daemon' = daemon /\ link' = link /\ lost' = lost
      BY <1>2 DEF LoadFails
    <2> QED BY <1>1, <2>1 DEF PageType
  <1>3. CASE CacheExpires
    <2> DEFINE none == <<>>
    <2>1. /\ page' = [page EXCEPT !.cached = none]
          /\ daemon' = daemon /\ link' = link /\ lost' = lost
      BY <1>3 DEF CacheExpires
    <2>2. none \in Seq(Value)
      OBVIOUS
    <2> HIDE DEF none
    <2>3. /\ page' \in PageType /\ page'.cursor = page.cursor /\ page'.overview = page.overview
          /\ page'.detail = page.detail /\ page'.cached = none /\ page'.load = page.load
      BY <1>1, <2>1, <2>2 DEF PageType
    <2> QED BY <2>1, <2>3 DEF none
  <1> QED BY <1>2, <1>3

LEMMA NewerKeeps ==
  ASSUME LiveTypes, OrderInv, NEW d \in Value, Behindhand(d),
         NEW v \in Value, OnItsWay(Selected, v)
  PROVE  Behindhand(Newer(d, v)) /\ Newer(d, v) \in Value /\ d.content <= Newer(d, v).content
  <1>1. d.at \in Nat /\ v.at \in Nat /\ d.content \in Nat /\ v.content \in Nat
    BY DEF Value
  <1>2. CASE v.at < d.at
    BY <1>1, <1>2 DEF Newer
  <1>3. CASE ~(v.at < d.at)
    <2>1. Newer(d, v) = v /\ d.at <= v.at
      BY <1>1, <1>3 DEF Newer
    <2>2. Behindhand(v)
      BY SelectedAssumption DEF OrderInv, SourceInv, Behindhand
    <2>3. d.content <= v.content
      BY <2>1 DEF Behindhand
    <2> QED BY <2>1, <2>2, <2>3
  <1> QED BY <1>2, <1>3

LEMMA NothingNew ==
  ASSUME LiveTypes, OrderInv, LiveTypes', daemon'.state = daemon.state,
         daemon'.clock = daemon.clock,
         \A s \in Shown, v \in Value : OnItsWay(s, v)' => OnItsWay(s, v) \/ v = Blank,
         Behindhand(page'.detail)
  PROVE  OrderInv'
  <1>1. page'.detail \in Value /\ daemon.state \in [Shown -> Value] /\ daemon.clock \in Nat
    BY DEF LiveTypes, PageType, DaemonType
  <1>2. \A v \in Value : v.content \in Nat /\ v.at \in Nat
    BY DEF Value
  <1>3. SourceInv'
    <2> SUFFICES ASSUME NEW s \in Shown, NEW v \in Value, NEW w \in Value, OnItsWay(s, v)'
                 PROVE  /\ v.content <= v.at /\ v.at <= daemon.clock
                        /\ v.content <= daemon.state[s].content
                        /\ OnItsWay(s, w)' /\ v.at <= w.at => v.content <= w.content
      BY DEF SourceInv
    <2>1. OnItsWay(s, v) \/ v = Blank
      OBVIOUS
    <2>2. OnItsWay(s, w)' => OnItsWay(s, w) \/ w = Blank
      OBVIOUS
    <2>3. daemon.state[s].content \in Nat
      BY <1>1, <1>2
    <2>4. CASE v = Blank
      BY <1>1, <1>2, <2>3, <2>4, BlankValue
    <2>5. CASE OnItsWay(s, v)
      <3>1. /\ v.content <= v.at /\ v.at <= daemon.clock
            /\ v.content <= daemon.state[s].content
            /\ OnItsWay(s, w) /\ v.at <= w.at => v.content <= w.content
        BY <2>5 DEF OrderInv, SourceInv
      <3> QED BY <1>2, <2>2, <3>1, BlankValue
    <2> QED BY <2>1, <2>4, <2>5
  <1>4. Behindhand(page.detail)'
    <2>1. ASSUME NEW v \in Value, OnItsWay(Selected, v)', page'.detail.at <= v.at
          PROVE  page'.detail.content <= v.content
      BY <1>1, <1>2, <2>1, BlankValue, SelectedAssumption DEF Behindhand
    <2> QED BY <2>1 DEF Behindhand
  <1> QED BY <1>3, <1>4 DEF OrderInv

LEMMA StateNew ==
  ASSUME LiveTypes, OrderInv, NEW s \in Shown, NEW new \in Value,
         new.at = daemon.clock + 1, daemon.state[s].content <= new.content,
         new.content <= new.at, daemon'.state = [daemon.state EXCEPT ![s] = new],
         daemon'.clock = daemon.clock + 1, page' = page,
         \A x \in Shown, v \in Value : OnItsWay(x, v)' => OnItsWay(x, v) \/ v = Blank \/ (x = s /\ v = new)
  PROVE  OrderInv'
  <1>1. page.detail \in Value /\ daemon.state \in [Shown -> Value] /\ daemon.clock \in Nat
    BY DEF LiveTypes, PageType, DaemonType
  <1>2. \A v \in Value : v.content \in Nat /\ v.at \in Nat
    BY DEF Value
  <1>3. SourceInv'
    <2> SUFFICES ASSUME NEW x \in Shown, NEW v \in Value, NEW w \in Value, OnItsWay(x, v)'
                 PROVE  /\ v.content <= v.at /\ v.at <= daemon'.clock
                        /\ v.content <= daemon'.state[x].content
                        /\ OnItsWay(x, w)' /\ v.at <= w.at => v.content <= w.content
      BY DEF SourceInv
    <2>1. OnItsWay(x, v) \/ v = Blank \/ (x = s /\ v = new)
      OBVIOUS
    <2>2. OnItsWay(x, w)' => OnItsWay(x, w) \/ w = Blank \/ (x = s /\ w = new)
      OBVIOUS
    <2>3. daemon'.state[x] = IF x = s THEN new ELSE daemon.state[x]
      BY <1>1
    <2>4. OnItsWay(x, w) => w.at <= daemon.clock
      BY DEF OrderInv, SourceInv
    <2>5. daemon.state[x].content \in Nat
      BY <1>1, <1>2
    <2>6. CASE x = s /\ v = new
      BY <1>1, <1>2, <2>2, <2>3, <2>4, <2>6, BlankValue
    <2>7. CASE v = Blank
      <3>1. daemon'.state[x].content \in Nat
        BY <1>1, <1>2, <2>3, <2>5
      <3> QED BY <1>1, <1>2, <2>7, <3>1, BlankValue
    <2>8. CASE OnItsWay(x, v)
      <3>1. /\ v.content <= v.at /\ v.at <= daemon.clock
            /\ v.content <= daemon.state[x].content
            /\ OnItsWay(x, w) /\ v.at <= w.at => v.content <= w.content
        BY <2>8 DEF OrderInv, SourceInv
      <3>2. v.at <= daemon'.clock /\ v.content <= daemon'.state[x].content
        BY <1>1, <1>2, <2>3, <2>5, <3>1
      <3>3. x = s /\ w = new => v.content <= w.content
        BY <1>1, <1>2, <2>3, <3>2
      <3>4. w = Blank /\ v.at <= w.at => v.content <= w.content
        BY <1>2, <3>1, BlankValue
      <3> QED BY <2>2, <3>1, <3>2, <3>3, <3>4
    <2> QED BY <2>1, <2>6, <2>8, <2>7
  <1>4. Behindhand(page.detail)'
    <2>1. daemon'.state[Selected] = IF Selected = s THEN new ELSE daemon.state[Selected]
      BY <1>1, SelectedAssumption
    <2>2. daemon.state[Selected].content \in Nat
      BY <1>1, <1>2, SelectedAssumption
    <2>3. /\ page.detail.content <= page.detail.at
          /\ page.detail.content <= daemon.state[Selected].content
          /\ \A v \in Value : OnItsWay(Selected, v) /\ page.detail.at <= v.at
                               => page.detail.content <= v.content
      BY DEF OrderInv, Behindhand
    <2>4. page.detail.content <= daemon'.state[Selected].content
      BY <1>1, <1>2, <2>1, <2>2, <2>3
    <2>5. ASSUME NEW v \in Value, OnItsWay(Selected, v)', page.detail.at <= v.at
          PROVE  page.detail.content <= v.content
      BY <1>1, <1>2, <2>1, <2>3, <2>4, <2>5, BlankValue, SelectedAssumption
    <2> QED BY <2>3, <2>4, <2>5 DEF Behindhand
  <1> QED BY <1>3, <1>4 DEF OrderInv

(* Nothing is on its way that was not before, or has just been sent.       *)
Among(x, q) == \E j \in 1 .. Len(q) : x = q[j]

LEMMA OnItsWayFrom ==
  ASSUME LiveTypes, NEW e, NEW s \in Shown, NEW v, OnItsWay(s, v)',
         \A i \in 1 .. Len(link'.channel) :
           \/ link'.channel[i] = e
           \/ Among(link'.channel[i], link.channel)
           \/ Among(link'.channel[i], daemon.buffer),
         \A i \in 1 .. Len(daemon'.buffer) :
           daemon'.buffer[i] = e \/ Among(daemon'.buffer[i], daemon.buffer),
         OnItsWay(s, page'.overview[s]),
         page'.load.value = Blank \/ OnItsWay(Selected, page'.load.value),
         page'.cached # <<>> => OnItsWay(Selected, page'.cached[1])
  PROVE  \/ OnItsWay(s, v) \/ v = daemon'.state[s] \/ v = Blank
         \/ s = e.session /\ v = e.value
  <1>1. CASE v = daemon'.state[s]
    BY <1>1
  <1>2. CASE v = page'.overview[s] \/ (s = Selected /\ v = page'.load.value)
               \/ (s = Selected /\ page'.cached # <<>> /\ v = page'.cached[1])
    BY <1>2
  <1>3. ASSUME NEW i \in 1 .. Len(link'.channel),
               link'.channel[i].session = s /\ v = link'.channel[i].value
        PROVE  OnItsWay(s, v) \/ (s = e.session /\ v = e.value)
    BY <1>3 DEF OnItsWay, Among
  <1>4. ASSUME NEW i \in 1 .. Len(daemon'.buffer),
               daemon'.buffer[i].session = s /\ v = daemon'.buffer[i].value
        PROVE  OnItsWay(s, v) \/ (s = e.session /\ v = e.value)
    BY <1>4 DEF OnItsWay, Among
  <1>5. \/ v = daemon'.state[s] \/ v = page'.overview[s]
        \/ s = Selected /\ v = page'.load.value
        \/ s = Selected /\ page'.cached # <<>> /\ v = page'.cached[1]
        \/ \E i \in 1 .. Len(link'.channel) :
             link'.channel[i].session = s /\ v = link'.channel[i].value
        \/ \E i \in 1 .. Len(daemon'.buffer) :
             daemon'.buffer[i].session = s /\ v = daemon'.buffer[i].value
    BY DEF OnItsWay
  <1> QED BY <1>1, <1>2, <1>3, <1>4, <1>5

LEMMA AmongSelf ==
  ASSUME NEW q PROVE \A i \in 1 .. Len(q) : Among(q[i], q)
  BY DEF Among

LEMMA AmongAppended ==
  ASSUME NEW q \in Seq(LiveEvents), NEW e \in LiveEvents
  PROVE  \A i \in 1 .. Len(Append(q, e)) : Append(q, e)[i] = e \/ Among(Append(q, e)[i], q)
  BY DEF Among

LEMMA AmongTail ==
  ASSUME NEW q \in Seq(LiveEvents), q # <<>>
  PROVE  \A i \in 1 .. Len(Tail(q)) : Among(Tail(q)[i], q)
  <1>1. \A i \in 1 .. Len(Tail(q)) : i + 1 \in 1 .. Len(q) /\ Tail(q)[i] = q[i + 1]
    OBVIOUS
  <1> QED BY <1>1 DEF Among

LEMMA AmongBuffered ==
  ASSUME LiveTypes, NEW e \in LiveEvents
  PROVE  \A i \in 1 .. Len(Buffered(e)) : Buffered(e)[i] = e \/ Among(Buffered(e)[i], daemon.buffer)
  BY BufferedGives DEF Among

PageKeepsUp ==
  /\ \A s \in Shown : page.overview[s].content <= page'.overview[s].content
  /\ page.detail.content <= page'.detail.content

LEMMA StandsStill ==
  ASSUME LiveTypes, page'.overview = page.overview, page'.detail = page.detail
  PROVE  PageKeepsUp
  <1>1. page.overview \in [Shown -> Value] /\ page.detail \in Value
    BY DEF LiveTypes, PageType
  <1>2. \A v \in Value : v.content \in Nat
    BY DEF Value
  <1> QED BY <1>1, <1>2 DEF PageKeepsUp

LEMMA UpdatedOrder ==
  ASSUME LiveTypes, OrderInv, NEW s \in Shown, SessionUpdated(s)
  PROVE  LiveTypes' /\ OrderInv' /\ PageKeepsUp
  <1>1. PICK e \in LiveEvents, new \in Value : Update(s, e, new)
    BY UpdatedIs
  <1>2. /\ daemon.state \in [Shown -> Value] /\ daemon.clock \in Nat
        /\ link.channel \in Seq(LiveEvents) /\ page.overview \in [Shown -> Value]
    BY DEF LiveTypes, DaemonType, LinkType, PageType
  <1>3. LiveTypes' /\ page' = page
    BY <1>1 DEF LiveTypes, Update
  <1>4. daemon.state[s].content <= new.content
    <2>1. daemon.state[s].content <= daemon.state[s].at /\ daemon.state[s].at <= daemon.clock
      BY <1>2 DEF OrderInv, SourceInv, OnItsWay
    <2>2. daemon.state[s].content \in Nat /\ daemon.state[s].at \in Nat
      BY <1>2 DEF Value
    <2> QED BY <1>1, <1>2, <2>1, <2>2 DEF Update
  <1>5. ASSUME NEW x \in Shown, NEW v \in Value, OnItsWay(x, v)'
        PROVE  OnItsWay(x, v) \/ v = Blank \/ (x = s /\ v = new)
    <2>1. \A i \in 1 .. Len(link'.channel) : link'.channel[i] = e \/ Among(link'.channel[i], link.channel)
      <3>1. CASE link.up
        <4>1. link'.channel = Append(link.channel, e)
          BY <1>1, <3>1 DEF Update
        <4> QED BY <1>2, <4>1, AmongAppended
      <3>2. CASE ~link.up
        BY <1>1, <3>2, AmongSelf DEF Update
      <3> QED BY <3>1, <3>2
    <2>2. \A i \in 1 .. Len(daemon'.buffer) : daemon'.buffer[i] = e \/ Among(daemon'.buffer[i], daemon.buffer)
      BY <1>1, AmongBuffered DEF Update
    <2>3. OnItsWay(x, page.overview[x]) /\ OnItsWay(Selected, page.load.value)
           /\ (page.cached # <<>> => OnItsWay(Selected, page.cached[1]))
           /\ OnItsWay(x, daemon.state[x])
      BY DEF OnItsWay
    <2>4. daemon'.state[x] = IF x = s THEN new ELSE daemon.state[x]
      BY <1>1, <1>2 DEF Update
    <2>5. \/ OnItsWay(x, v) \/ v = daemon'.state[x] \/ v = Blank
          \/ x = e.session /\ v = e.value
      BY <1>3, <1>5, <2>1, <2>2, <2>3, OnItsWayFrom
    <2> QED BY <1>1, <2>3, <2>4, <2>5 DEF Update
  <1>6. OrderInv'
    <2>1. new.at = daemon.clock + 1 /\ new.content <= new.at
           /\ daemon'.state = [daemon.state EXCEPT ![s] = new] /\ daemon'.clock = daemon.clock + 1
      BY <1>1, <1>2 DEF Update
    <2> QED BY <1>3, <1>4, <1>5, <2>1, StateNew
  <1> QED BY <1>3, <1>6, StandsStill

LEMMA LoggedOrder ==
  ASSUME LiveTypes, OrderInv, LogAppended
  PROVE  LiveTypes' /\ OrderInv' /\ PageKeepsUp
  <1>1. PICK e \in LiveEvents, new \in Value : LogLine(e, new)
    BY LoggedIs
  <1>2. /\ daemon.state \in [Shown -> Value] /\ daemon.clock \in Nat /\ Selected \in Shown
        /\ link.channel \in Seq(LiveEvents) /\ page.overview \in [Shown -> Value]
    BY SelectedAssumption DEF LiveTypes, DaemonType, LinkType, PageType
  <1>3. LiveTypes' /\ page' = page
    BY <1>1 DEF LiveTypes, LogLine
  <1>4. daemon.state[Selected].content <= new.content /\ new.content <= new.at
    <2>1. /\ daemon.state[Selected].content <= daemon.state[Selected].at
          /\ daemon.state[Selected].at <= daemon.clock
      BY <1>2 DEF OrderInv, SourceInv, OnItsWay
    <2>2. daemon.state[Selected].content \in Nat /\ daemon.state[Selected].at \in Nat
      BY <1>2 DEF Value
    <2> QED BY <1>1, <1>2, <2>1, <2>2 DEF LogLine
  <1>5. ASSUME NEW x \in Shown, NEW v \in Value, OnItsWay(x, v)'
        PROVE  OnItsWay(x, v) \/ v = Blank \/ (x = Selected /\ v = new)
    <2>1. \A i \in 1 .. Len(link'.channel) : link'.channel[i] = e \/ Among(link'.channel[i], link.channel)
      <3>1. CASE link'.channel = Append(link.channel, e)
        BY <1>2, <3>1, AmongAppended
      <3>2. CASE link' = link
        BY <3>2, AmongSelf
      <3> QED BY <1>1, <3>1, <3>2 DEF LogLine
    <2>2. \A i \in 1 .. Len(daemon'.buffer) : Among(daemon'.buffer[i], daemon.buffer)
      BY <1>1, AmongSelf DEF LogLine
    <2>3. OnItsWay(x, page.overview[x]) /\ OnItsWay(Selected, page.load.value)
           /\ (page.cached # <<>> => OnItsWay(Selected, page.cached[1]))
           /\ OnItsWay(x, daemon.state[x])
      BY DEF OnItsWay
    <2>4. daemon'.state[x] = IF x = Selected THEN new ELSE daemon.state[x]
      BY <1>1, <1>2 DEF LogLine
    <2>5. \/ OnItsWay(x, v) \/ v = daemon'.state[x] \/ v = Blank
          \/ x = e.session /\ v = e.value
      BY <1>3, <1>5, <2>1, <2>2, <2>3, OnItsWayFrom
    <2> QED BY <1>1, <2>3, <2>4, <2>5 DEF LogLine
  <1>6. OrderInv'
    <2>1. /\ new.at = daemon.clock + 1
          /\ daemon'.state = [daemon.state EXCEPT ![Selected] = new]
          /\ daemon'.clock = daemon.clock + 1
      BY <1>1 DEF LogLine
    <2> QED BY <1>2, <1>3, <1>4, <1>5, <2>1, StateNew
  <1> QED BY <1>3, <1>6, StandsStill

(* The steps that change no session.                                       *)
LEMMA QuietOrder ==
  ASSUME LiveTypes, OrderInv, LiveTypes', NEW e,
         daemon'.state = daemon.state, daemon'.clock = daemon.clock,
         \A s \in Shown : s = e.session => OnItsWay(s, e.value) \/ e.value = Blank,
         \A i \in 1 .. Len(link'.channel) :
           \/ link'.channel[i] = e
           \/ Among(link'.channel[i], link.channel)
           \/ Among(link'.channel[i], daemon.buffer),
         \A i \in 1 .. Len(daemon'.buffer) :
           daemon'.buffer[i] = e \/ Among(daemon'.buffer[i], daemon.buffer),
         \A s \in Shown : OnItsWay(s, page'.overview[s]),
         page'.load.value = Blank \/ OnItsWay(Selected, page'.load.value),
         page'.cached # <<>> => OnItsWay(Selected, page'.cached[1]),
         Behindhand(page'.detail)
  PROVE  OrderInv'
  <1>1. ASSUME NEW s \in Shown, NEW v \in Value, OnItsWay(s, v)'
        PROVE  OnItsWay(s, v) \/ v = Blank
    <2>1. \/ OnItsWay(s, v) \/ v = daemon'.state[s] \/ v = Blank
          \/ s = e.session /\ v = e.value
      BY <1>1, OnItsWayFrom
    <2>2. OnItsWay(s, daemon.state[s])
      BY DEF OnItsWay
    <2> QED BY <2>1, <2>2
  <1> QED BY <1>1, NothingNew

LEMMA PageWay ==
  /\ \A s \in Shown : OnItsWay(s, page.overview[s]) /\ OnItsWay(s, daemon.state[s])
  /\ OnItsWay(Selected, page.load.value)
  /\ page.cached # <<>> => OnItsWay(Selected, page.cached[1])
  BY DEF OnItsWay

LEMMA PresentOrder ==
  ASSUME LiveTypes, OrderInv, PresenceArrives
  PROVE  LiveTypes' /\ OrderInv' /\ PageKeepsUp
  <1>1. PresenceNotice \in LiveEvents /\ PresenceNotice.session = Selected
         /\ PresenceNotice.value = daemon.state[Selected]
    BY NoticeIs
  <1>2. LiveTypes'
    BY PresentIs DEF LiveTypes
  <1> DEFINE e == PresenceNotice
  <1>3. \A i \in 1 .. Len(link'.channel) : link'.channel[i] = e \/ Among(link'.channel[i], link.channel)
    <2>1. link'.channel = Append(link.channel, e) /\ link.channel \in Seq(LiveEvents)
      BY PresentIs DEF LiveTypes, LinkType
    <2> QED BY <1>1, <2>1, AmongAppended
  <1>4. \A i \in 1 .. Len(daemon'.buffer) : daemon'.buffer[i] = e \/ Among(daemon'.buffer[i], daemon.buffer)
    <2>1. daemon'.buffer = Buffered(e)
      BY PresentIs
    <2> QED BY <1>1, <2>1, AmongBuffered
  <1>5. page' = page /\ daemon'.state = daemon.state /\ daemon'.clock = daemon.clock
    BY PresentIs
  <1>6. Behindhand(page.detail)
    BY DEF OrderInv
  <1> HIDE DEF e
  <1>7. \A s \in Shown : s = e.session => OnItsWay(s, e.value)
    BY <1>1, PageWay, SelectedAssumption DEF e
  <1>8. OrderInv'
    BY <1>2, <1>3, <1>4, <1>5, <1>6, <1>7, PageWay, QuietOrder
  <1> QED BY <1>2, <1>5, <1>8, StandsStill

LEMMA CutOrder ==
  ASSUME LiveTypes, OrderInv, SocketCut
  PROVE  LiveTypes' /\ OrderInv' /\ PageKeepsUp
  <1>1. PresenceNotice \in LiveEvents /\ PresenceNotice.session = Selected
         /\ PresenceNotice.value = daemon.state[Selected]
    BY NoticeIs
  <1>2. LiveTypes'
    BY CutIs, DownIs DEF LiveTypes
  <1> DEFINE e == PresenceNotice
  <1>3. Len(link'.channel) = 0
    <2>1. link'.channel = <<>>
      BY CutIs, DownIs
    <2> QED BY <2>1
  <1>4. \A i \in 1 .. Len(daemon'.buffer) : daemon'.buffer[i] = e \/ Among(daemon'.buffer[i], daemon.buffer)
    <2>1. daemon'.buffer = Buffered(e) \/ daemon'.buffer = daemon.buffer
      BY CutIs
    <2> QED BY <1>1, <2>1, AmongBuffered, AmongSelf
  <1>5. page' = page /\ daemon'.state = daemon.state /\ daemon'.clock = daemon.clock
    BY CutIs
  <1>6. Behindhand(page.detail)
    BY DEF OrderInv
  <1> HIDE DEF e
  <1>7. \A s \in Shown : s = e.session => OnItsWay(s, e.value)
    BY <1>1, PageWay, SelectedAssumption DEF e
  <1>8. OrderInv'
    BY <1>2, <1>3, <1>4, <1>5, <1>6, <1>7, PageWay, QuietOrder
  <1> QED BY <1>2, <1>5, <1>8, StandsStill

LEMMA RestartOrder ==
  ASSUME LiveTypes, OrderInv, DaemonRestarts
  PROVE  LiveTypes' /\ OrderInv' /\ PageKeepsUp
  <1>1. LiveTypes'
    BY RestartIs, DownIs DEF LiveTypes
  <1>2. Len(link'.channel) = 0 /\ Len(daemon'.buffer) = 0
    <2>1. link'.channel = <<>> /\ daemon'.buffer = <<>>
      BY RestartIs, DownIs
    <2> QED BY <2>1
  <1>3. /\ daemon'.state = daemon.state /\ daemon'.clock = daemon.clock
        /\ page'.overview = page.overview /\ page'.detail = page.detail
        /\ page'.cached = page.cached /\ page'.load.value \in {page.load.value, Blank}
    BY RestartIs
  <1>4. Behindhand(page.detail)
    BY DEF OrderInv
  <1>5. Hello.value = Blank
    BY DEF Hello
  <1>6. OrderInv'
    BY <1>1, <1>2, <1>3, <1>4, <1>5, PageWay, QuietOrder
  <1> QED BY <1>1, <1>3, <1>6, StandsStill

LEMMA OpensOrder ==
  ASSUME LiveTypes, OrderInv, SocketOpens
  PROVE  LiveTypes' /\ OrderInv' /\ PageKeepsUp
  <1>1. LiveTypes' /\ page' = page /\ daemon' = daemon
    BY OpensIs DEF LiveTypes
  <1>2. \A i \in 1 .. Len(link'.channel) : link'.channel[i] = Hello
    <2>1. link'.channel = <<Hello>>
      BY OpensIs
    <2> QED BY <2>1
  <1>3. Hello.value = Blank
    BY OpensIs
  <1>4. Behindhand(page.detail)
    BY DEF OrderInv
  <1>5. \A i \in 1 .. Len(daemon'.buffer) : Among(daemon'.buffer[i], daemon.buffer)
    BY <1>1, AmongSelf
  <1>6. OrderInv'
    BY <1>1, <1>2, <1>3, <1>4, <1>5, PageWay, QuietOrder
  <1> QED BY <1>1, <1>6, StandsStill

LEMMA ReplayOrder ==
  ASSUME LiveTypes, OrderInv, Ordered(daemon.buffer), Replay
  PROVE  LiveTypes' /\ OrderInv' /\ PageKeepsUp
  <1>1. LiveTypes' /\ page' = page /\ daemon' = daemon
    BY ReplayIs DEF LiveTypes
  <1> DEFINE more == ReadAfter(link.after)
  <1>2. /\ link'.channel = link.channel \o more /\ link.after \in Nat
        /\ link.channel \in Seq(LiveEvents) /\ more \in Seq(LiveEvents)
    BY ReplayIs DEF LiveTypes, LinkType
  <1>3. \A i \in 1 .. Len(more) : Among(more[i], daemon.buffer)
    <2>1. CASE link.after = 0
      <3>1. more = <<>>
        BY <2>1 DEF ReadAfter
      <3> QED BY <3>1
    <2>2. CASE link.after # 0
      <3>1. more = Unpassed(link.after)
        BY <2>2 DEF ReadAfter
      <3>2. \A i \in 1 .. Len(Unpassed(link.after)) :
              \E j \in 1 .. Len(daemon.buffer) : Unpassed(link.after)[i] = daemon.buffer[j]
        BY <1>2, UnpassedIs
      <3> HIDE DEF more
      <3> QED BY <3>1, <3>2 DEF Among
    <2> QED BY <2>1, <2>2
  <1> HIDE DEF more
  <1>4. \A i \in 1 .. Len(link'.channel) :
          Among(link'.channel[i], link.channel) \/ Among(link'.channel[i], daemon.buffer)
    <2> SUFFICES ASSUME NEW i \in 1 .. Len(link'.channel)
                 PROVE  Among(link'.channel[i], link.channel) \/ Among(link'.channel[i], daemon.buffer)
      OBVIOUS
    <2>1. CASE i <= Len(link.channel)
      <3>1. i \in 1 .. Len(link.channel) /\ link'.channel[i] = link.channel[i]
        BY <1>2, <2>1
      <3> QED BY <3>1, AmongSelf
    <2>2. CASE i > Len(link.channel)
      <3>1. /\ i - Len(link.channel) \in 1 .. Len(more)
            /\ link'.channel[i] = more[i - Len(link.channel)]
        BY <1>2, <2>2
      <3> QED BY <1>3, <3>1
    <2> QED BY <1>2, <2>1, <2>2
  <1>5. Behindhand(page.detail)
    BY DEF OrderInv
  <1>6. \A i \in 1 .. Len(daemon'.buffer) : Among(daemon'.buffer[i], daemon.buffer)
    BY <1>1, AmongSelf
  <1>7. Hello.value = Blank
    BY DEF Hello
  <1>8. OrderInv'
    BY <1>1, <1>4, <1>5, <1>6, <1>7, PageWay, QuietOrder
  <1> QED BY <1>1, <1>8, StandsStill

LEMMA ReceiveOrder ==
  ASSUME LiveTypes, OrderInv, Receive
  PROVE  LiveTypes' /\ OrderInv' /\ PageKeepsUp
  <1>1. PICK e \in LiveEvents :
           /\ link.up /\ link.channel # <<>> /\ e = link.channel[1]
           /\ daemon' = daemon /\ lost' = lost
           /\ link' \in LinkType /\ link'.up = link.up /\ link'.after = link.after
           /\ link'.replayed = link.replayed /\ link'.viewing = link.viewing
           /\ link'.overtaken = link.overtaken /\ link'.channel = Tail(link.channel)
           /\ page' \in PageType /\ page'.cached = page.cached
           /\ page'.load.value = page.load.value
           /\ page'.cursor = IF e.kind = "hello" THEN page.cursor ELSE e.cursor
           /\ page'.overview = IF e.kind = "summary"
                               THEN [page.overview EXCEPT ![e.session] = Newer(@, e.value)]
                               ELSE page.overview
           /\ \E d \in Value :
                /\ \/ d = page.detail
                   \/ e.session = Selected /\ d = Newer(page.detail, e.value)
                   \/ d.content = page.detail.content /\ page.detail.at <= d.at
                /\ \/ page'.detail = d
                   \/ /\ page.cached # <<>> /\ page.cached[1] \in Value
                      /\ page'.detail = Newer(d, page.cached[1])
    BY ReceiveIs
  <1>2. PICK d \in Value :
          /\ \/ d = page.detail
             \/ e.session = Selected /\ d = Newer(page.detail, e.value)
             \/ d.content = page.detail.content /\ page.detail.at <= d.at
          /\ \/ page'.detail = d
             \/ /\ page.cached # <<>> /\ page.cached[1] \in Value
                /\ page'.detail = Newer(d, page.cached[1])
    BY <1>1
  <1>3. /\ link.channel \in Seq(LiveEvents) /\ page.overview \in [Shown -> Value]
        /\ page.detail \in Value /\ daemon.state \in [Shown -> Value]
        /\ e.session \in Shown /\ e.value \in Value
    BY DEF LiveTypes, LinkType, PageType, DaemonType, LiveEvents
  <1>4. LiveTypes'
    BY <1>1 DEF LiveTypes
  <1>5. OnItsWay(e.session, e.value)
    <2>1. 1 \in 1 .. Len(link.channel)
      BY <1>1, <1>3
    <2> QED BY <1>1, <2>1 DEF OnItsWay
  <1>6. \A v \in Value : v.content \in Nat /\ v.at \in Nat
    BY DEF Value
  <1>7. Behindhand(page.detail)
    BY DEF OrderInv
  <1>8. Behindhand(d) /\ page.detail.content <= d.content
    <2>1. CASE d = page.detail
      BY <1>3, <1>6, <1>7, <2>1
    <2>2. CASE e.session = Selected /\ d = Newer(page.detail, e.value)
      BY <1>3, <1>5, <1>7, <2>2, NewerKeeps
    <2>3. CASE d.content = page.detail.content /\ page.detail.at <= d.at
      <3>1. d.content <= d.at /\ d.content <= daemon.state[Selected].content
             /\ page.detail.content <= d.content
        BY <1>3, <1>6, <1>7, <2>3 DEF Behindhand
      <3>2. ASSUME NEW v \in Value, OnItsWay(Selected, v), d.at <= v.at
            PROVE  d.content <= v.content
        <4>1. page.detail.at <= v.at
          BY <1>3, <1>6, <2>3, <3>2
        <4> QED BY <1>7, <2>3, <3>2, <4>1 DEF Behindhand
      <3> QED BY <3>1, <3>2 DEF Behindhand
    <2> QED BY <1>2, <2>1, <2>2, <2>3
  <1>9. Behindhand(page'.detail) /\ page.detail.content <= page'.detail.content
    <2>1. CASE page'.detail = d
      BY <1>8, <2>1
    <2>2. CASE /\ page.cached # <<>> /\ page.cached[1] \in Value
               /\ page'.detail = Newer(d, page.cached[1])
      <3>1. /\ Behindhand(page'.detail) /\ page'.detail \in Value
            /\ d.content <= page'.detail.content
        BY <1>8, <2>2, NewerKeeps, PageWay
      <3> QED BY <1>3, <1>6, <1>8, <3>1
    <2> QED BY <1>2, <2>1, <2>2
  <1>10. ASSUME NEW s \in Shown
         PROVE  OnItsWay(s, page'.overview[s]) /\ page.overview[s].content <= page'.overview[s].content
    <2>1. OnItsWay(s, page.overview[s]) /\ page.overview[s] \in Value
      BY <1>3, PageWay
    <2>2. CASE page'.overview[s] = page.overview[s]
      BY <1>6, <2>1, <2>2
    <2>3. CASE s = e.session /\ page'.overview[s] = Newer(page.overview[s], e.value)
      <3>1. CASE e.value.at < page.overview[s].at
        BY <1>6, <2>1, <2>3, <3>1 DEF Newer
      <3>2. CASE ~(e.value.at < page.overview[s].at)
        <4>1. page'.overview[s] = e.value /\ page.overview[s].at <= e.value.at
          BY <1>3, <1>6, <2>1, <2>3, <3>2 DEF Newer
        <4>2. page.overview[s].content <= e.value.content
          BY <1>3, <1>5, <2>1, <2>3, <4>1 DEF OrderInv, SourceInv
        <4> QED BY <1>5, <2>3, <4>1, <4>2
      <3> QED BY <3>1, <3>2
    <2>4. \/ page'.overview[s] = page.overview[s]
          \/ s = e.session /\ page'.overview[s] = Newer(page.overview[s], e.value)
      BY <1>1, <1>3
    <2> QED BY <2>2, <2>3, <2>4
  <1>11. \A i \in 1 .. Len(link'.channel) : Among(link'.channel[i], link.channel)
    <2>1. link'.channel = Tail(link.channel) /\ link.channel # <<>>
      BY <1>1
    <2> QED BY <1>3, <2>1, AmongTail
  <1>12. \A i \in 1 .. Len(daemon'.buffer) : Among(daemon'.buffer[i], daemon.buffer)
    BY <1>1, AmongSelf
  <1>13. /\ daemon' = daemon /\ page'.load.value = page.load.value /\ page'.cached = page.cached
    BY <1>1
  <1>14. \A s \in Shown : s = e.session => OnItsWay(s, e.value)
    BY <1>5
  <1>15. OrderInv'
    BY <1>4, <1>9, <1>10, <1>11, <1>12, <1>13, <1>14, PageWay, QuietOrder
  <1> QED BY <1>4, <1>9, <1>10, <1>15 DEF PageKeepsUp

LEMMA LoadOrder ==
  ASSUME LiveTypes, OrderInv, LoadAnswered \/ LoadArrives \/ LoadFails \/ CacheExpires
  PROVE  LiveTypes' /\ OrderInv' /\ PageKeepsUp
  <1>1. daemon' = daemon /\ link' = link /\ page' \in PageType /\ lost' = lost
         /\ page'.overview = page.overview
    BY AnsweredIs, ArrivesIs, ForgetsIs
  <1>2. LiveTypes'
    BY <1>1 DEF LiveTypes
  <1>3. /\ \A i \in 1 .. Len(link'.channel) : Among(link'.channel[i], link.channel)
        /\ \A i \in 1 .. Len(daemon'.buffer) : Among(daemon'.buffer[i], daemon.buffer)
    BY <1>1, AmongSelf
  <1>4. page'.load.value = Blank \/ OnItsWay(Selected, page'.load.value)
    BY AnsweredIs, ArrivesIs, ForgetsIs, PageWay, SelectedAssumption
  <1>5. page'.cached # <<>> => OnItsWay(Selected, page'.cached[1])
    BY AnsweredIs, ArrivesIs, ForgetsIs, PageWay
  <1>6. Behindhand(page.detail) /\ page.detail \in Value
    BY DEF OrderInv, LiveTypes, PageType
  <1>7. Behindhand(page'.detail) /\ page.detail.content <= page'.detail.content
    <2>1. CASE page'.detail = page.detail
      <3>1. page.detail.content \in Nat
        BY <1>6 DEF Value
      <3> QED BY <1>6, <2>1, <3>1
    <2>2. CASE LoadArrives
      BY <1>6, <2>2, ArrivesIs, NewerKeeps, PageWay
    <2> QED BY <2>1, <2>2, AnsweredIs, ForgetsIs
  <1>8. Hello.value = Blank
    BY DEF Hello
  <1>9. OrderInv'
    BY <1>1, <1>2, <1>3, <1>4, <1>5, <1>7, <1>8, PageWay, QuietOrder
  <1>10. \A s \in Shown : page.overview[s].content <= page'.overview[s].content
    <2>1. page.overview \in [Shown -> Value] /\ \A v \in Value : v.content \in Nat
      BY DEF LiveTypes, PageType, Value
    <2> QED BY <1>1, <2>1
  <1> QED BY <1>2, <1>7, <1>9, <1>10 DEF PageKeepsUp

LEMMA OrderStep ==
  ASSUME LiveTypes, OrderInv, Ordered(daemon.buffer), [LiveNext]_LiveVars
  PROVE  LiveTypes' /\ OrderInv' /\ PageKeepsUp
  <1>1. CASE UNCHANGED LiveVars
    <2>1. LiveTypes' /\ OrderInv'
      BY <1>1 DEF LiveVars, LiveTypes, OrderInv, SourceInv, Behindhand, OnItsWay
    <2> QED BY <1>1, <2>1, StandsStill DEF LiveVars
  <1> QED
    BY <1>1, UpdatedOrder, LoggedOrder, PresentOrder, CutOrder, RestartOrder, OpensOrder,
       ReplayOrder, ReceiveOrder, LoadOrder DEF LiveNext

(* The replay buffer: summaries in the order of their cursors.             *)
BufferInv ==
  /\ Ordered(daemon.buffer) /\ Len(daemon.buffer) <= ReplayLimit
  /\ \A i \in 1 .. Len(daemon.buffer) :
       daemon.buffer[i].kind = "summary" /\ daemon.buffer[i].cursor \in 1 .. daemon.cursor

KeptOrDropped(x, q) == Among(x, q) \/ (Len(q) = ReplayLimit /\ x.cursor < q[1].cursor)

(* What is in the channel, and how far the page is, unless an update got   *)
(* out of its reach.                                                       *)
CursorInv ==
  /\ page.cursor <= daemon.cursor /\ link.after <= daemon.cursor
  /\ \A i \in 1 .. Len(link.channel) :
       /\ link.channel[i].cursor <= daemon.cursor
       /\ link.channel[i].kind = "hello" => link.channel[i].cursor = 0
       /\ link.channel[i].kind = "summary" => KeptOrDropped(link.channel[i], daemon.buffer)
  /\ ~link.overtaken =>
       /\ Ordered(link.channel)
       /\ \A i \in 1 .. Len(link.channel) :
            \/ link.channel[i].kind = "hello"
            \/ link.replayed /\ page.cursor < link.channel[i].cursor
       /\ link.up /\ ~link.replayed => page.cursor = link.after

(* Whatever the page lacks of a session is on its way, or will be replayed.*)
Carries(e, s) ==
  e.kind = "summary" /\ e.session = s /\ e.value.content = daemon.state[s].content

InBuffer(s, c) ==
  \E j \in 1 .. Len(daemon.buffer) : Carries(daemon.buffer[j], s) /\ c < daemon.buffer[j].cursor

InChannel(s) == \E i \in 1 .. Len(link.channel) : Carries(link.channel[i], s)

Pending(s) ==
  IF link.up THEN InChannel(s) \/ (~link.replayed /\ link.after # 0 /\ InBuffer(s, link.after))
  ELSE page.cursor = 0 \/ InBuffer(s, page.cursor)

PendingInv ==
  \A s \in Shown : page.overview[s].content < daemon.state[s].content => Pending(s)

LinkInv ==
  /\ ~link.up => link = DownLink
  /\ link.up /\ ~link.replayed => ~link.viewing
  /\ ~lost => CursorInv /\ PendingInv

LiveInv == LiveTypes /\ OrderInv /\ BufferInv /\ LinkInv

LEMMA BufferedKeeps ==
  ASSUME LiveTypes, BufferInv, NEW e \in LiveEvents, e.kind = "summary",
         e.cursor = daemon.cursor + 1
  PROVE  /\ Ordered(Buffered(e)) /\ Len(Buffered(e)) <= ReplayLimit
         /\ \A i \in 1 .. Len(Buffered(e)) :
              /\ Buffered(e)[i].kind = "summary"
              /\ Buffered(e)[i].cursor \in 1 .. daemon.cursor + 1
         /\ Among(e, Buffered(e))
         /\ \A x \in LiveEvents :
              x.cursor <= daemon.cursor /\ KeptOrDropped(x, daemon.buffer)
                => KeptOrDropped(x, Buffered(e))
         /\ \A j \in 1 .. Len(daemon.buffer) :
              \/ Among(daemon.buffer[j], Buffered(e))
              \/ j = 1 /\ Len(daemon.buffer) = ReplayLimit
  <1> DEFINE q == daemon.buffer
             n == Len(q)
             b == Buffered(e)
  <1>1. /\ q \in Seq(LiveEvents) /\ n \in Nat /\ ReplayLimit \in Nat \ {0} /\ daemon.cursor \in Nat
        /\ n <= ReplayLimit /\ e.cursor \in Nat
        /\ \A i \in 1 .. n : q[i].kind = "summary" /\ q[i].cursor \in 1 .. daemon.cursor
        /\ \A i, j \in 1 .. n : i < j => q[i].cursor < q[j].cursor
    BY ReplayLimitAssumption DEF LiveTypes, DaemonType, BufferInv, Ordered, LiveEvents
  <1>2. CASE n < ReplayLimit
    <2>1. b = Append(q, e)
      BY <1>2 DEF Buffered
    <2> HIDE DEF b, q
    <2>2. /\ Len(b) = n + 1 /\ b[n + 1] = e
          /\ \A i \in 1 .. n : b[i] = q[i]
      BY <1>1, <2>1
    <2>3. \A i \in 1 .. n + 1 : i = n + 1 \/ (i \in 1 .. n /\ b[i] = q[i])
      BY <1>1, <2>2
    <2>4. \A i \in 1 .. n + 1 : b[i].kind = "summary" /\ b[i].cursor \in 1 .. daemon.cursor + 1
      BY <1>1, <2>2, <2>3
    <2>5. Ordered(b)
      <3> SUFFICES ASSUME NEW i \in 1 .. n + 1, NEW j \in 1 .. n + 1, i < j
                   PROVE  b[i].cursor < b[j].cursor
        BY <2>2 DEF Ordered
      <3>1. i \in 1 .. n /\ b[i] = q[i]
        BY <1>1, <2>3
      <3> QED BY <1>1, <2>2, <2>3, <3>1
    <2>6. /\ Ordered(b) /\ Len(b) <= ReplayLimit
          /\ \A i \in 1 .. Len(b) :
               b[i].kind = "summary" /\ b[i].cursor \in 1 .. daemon.cursor + 1
      BY <1>1, <1>2, <2>2, <2>4, <2>5
    <2>7. Among(e, b) /\ \A j \in 1 .. n : Among(q[j], b)
      BY <1>1, <2>2 DEF Among
    <2>8. ASSUME NEW x \in LiveEvents, KeptOrDropped(x, q)
          PROVE  KeptOrDropped(x, b)
      <3>1. Among(x, q)
        BY <1>1, <1>2, <2>8 DEF KeptOrDropped
      <3> QED BY <2>7, <3>1 DEF KeptOrDropped, Among
    <2> QED BY <2>6, <2>7, <2>8 DEF b, q
  <1>3. CASE ~(n < ReplayLimit)
    <2>1. b = Append(Tail(q), e) /\ n = ReplayLimit
      BY <1>1, <1>3 DEF Buffered
    <2> HIDE DEF b, q
    <2>2. /\ Tail(q) \in Seq(LiveEvents) /\ Len(Tail(q)) = n - 1
          /\ \A i \in 1 .. n - 1 : Tail(q)[i] = q[i + 1]
      BY <1>1, <2>1
    <2> DEFINE rest == Tail(q)
    <2> HIDE DEF rest
    <2>3. /\ Len(Append(rest, e)) = Len(rest) + 1 /\ Append(rest, e)[Len(rest) + 1] = e
          /\ \A i \in 1 .. Len(rest) : Append(rest, e)[i] = rest[i]
      BY <2>2 DEF rest
    <2>4. /\ Len(b) = n /\ b[n] = e
          /\ \A i \in 1 .. n - 1 : b[i] = q[i + 1]
      BY <1>1, <2>1, <2>2, <2>3 DEF rest
    <2>5. \A i \in 1 .. n - 1 : i + 1 \in 1 .. n
      BY <1>1
    <2>6. \A i \in 1 .. n : b[i].kind = "summary" /\ b[i].cursor \in 1 .. daemon.cursor + 1
      <3> SUFFICES ASSUME NEW i \in 1 .. n
                   PROVE  b[i].kind = "summary" /\ b[i].cursor \in 1 .. daemon.cursor + 1
        OBVIOUS
      <3>1. CASE i = n
        BY <1>1, <2>4, <3>1
      <3>2. CASE i # n
        <4>1. i \in 1 .. n - 1
          BY <1>1, <3>2
        <4> QED BY <1>1, <2>4, <2>5, <4>1
      <3> QED BY <3>1, <3>2
    <2>7. Ordered(b)
      <3> SUFFICES ASSUME NEW i \in 1 .. n, NEW j \in 1 .. n, i < j
                   PROVE  b[i].cursor < b[j].cursor
        BY <2>4 DEF Ordered
      <3>1. i \in 1 .. n - 1 /\ b[i] = q[i + 1] /\ i + 1 \in 1 .. n
        BY <1>1, <2>4, <2>5
      <3>2. CASE j = n
        BY <1>1, <2>4, <3>1, <3>2
      <3>3. CASE j # n
        <4>1. j \in 1 .. n - 1 /\ b[j] = q[j + 1] /\ j + 1 \in 1 .. n /\ i + 1 < j + 1
          BY <1>1, <2>4, <2>5, <3>3
        <4> QED BY <1>1, <3>1, <4>1
      <3> QED BY <3>2, <3>3
    <2>8. ASSUME NEW j \in 1 .. n, j # 1
          PROVE  Among(q[j], b)
      <3>1. j - 1 \in 1 .. Len(b) /\ b[j - 1] = q[j]
        BY <1>1, <2>4, <2>8
      <3> QED BY <3>1 DEF Among
    <2>9. Among(e, b) /\ Len(b) <= ReplayLimit
      BY <1>1, <2>1, <2>4 DEF Among
    <2>10. q[1].cursor < b[1].cursor /\ q[1].cursor \in Nat /\ b[1].cursor \in Nat
      <3>1. CASE n = 1
        BY <1>1, <2>4, <3>1
      <3>2. CASE n # 1
        <4>1. 1 \in 1 .. n - 1 /\ 1 \in 1 .. n /\ 2 \in 1 .. n /\ b[1] = q[2]
          BY <1>1, <2>1, <2>4, <3>2
        <4> QED BY <1>1, <4>1
      <3> QED BY <3>1, <3>2
    <2>11. ASSUME NEW x \in LiveEvents, KeptOrDropped(x, q)
           PROVE  KeptOrDropped(x, b)
      <3>1. x.cursor \in Nat
        BY DEF LiveEvents
      <3>2. CASE x.cursor <= q[1].cursor
        BY <2>1, <2>4, <2>10, <3>1, <3>2 DEF KeptOrDropped
      <3>3. CASE ~(x.cursor <= q[1].cursor)
        <4>1. PICK j \in 1 .. n : x = q[j]
          BY <2>10, <2>11, <3>1, <3>3 DEF KeptOrDropped, Among
        <4>2. j # 1
          BY <2>10, <3>3, <4>1
        <4> QED BY <2>8, <4>1, <4>2 DEF KeptOrDropped
      <3> QED BY <3>2, <3>3
    <2> QED BY <2>1, <2>4, <2>6, <2>7, <2>8, <2>9, <2>11 DEF b, q
  <1> QED BY <1>2, <1>3

LEMMA BufferStep ==
  ASSUME LiveTypes, BufferInv, [LiveNext]_LiveVars
  PROVE  BufferInv'
  <1> DEFINE Fine(q, n) ==
        /\ Ordered(q) /\ Len(q) <= ReplayLimit
        /\ \A i \in 1 .. Len(q) : q[i].kind = "summary" /\ q[i].cursor \in 1 .. n
  <1>1. /\ Fine(daemon.buffer, daemon.cursor) /\ daemon.cursor \in Nat
        /\ daemon.buffer \in Seq(LiveEvents)
    BY DEF BufferInv, LiveTypes, DaemonType
  <1>2. ASSUME NEW e \in LiveEvents, e.kind = "summary", e.cursor = daemon.cursor + 1,
               daemon'.cursor = daemon.cursor + 1, daemon'.buffer = Buffered(e)
        PROVE  Fine(daemon'.buffer, daemon'.cursor)
    BY <1>2, BufferedKeeps
  <1>3. ASSUME daemon' = daemon
        PROVE  Fine(daemon'.buffer, daemon'.cursor)
    <2> HIDE DEF Fine
    <2> QED BY <1>1, <1>3
  <1>4. ASSUME NEW s \in Shown, SessionUpdated(s)
        PROVE  Fine(daemon'.buffer, daemon'.cursor)
    <2>1. PICK e \in LiveEvents, new \in Value : Update(s, e, new)
      BY <1>4, UpdatedIs
    <2>2. e.kind = "summary" /\ e.cursor = daemon.cursor + 1
           /\ daemon'.cursor = daemon.cursor + 1 /\ daemon'.buffer = Buffered(e)
      BY <2>1 DEF Update
    <2> HIDE DEF Fine
    <2> QED BY <1>2, <2>2
  <1>5. ASSUME LogAppended
        PROVE  Fine(daemon'.buffer, daemon'.cursor)
    <2>1. daemon'.cursor = daemon.cursor + 1 /\ daemon'.buffer = daemon.buffer
      BY <1>5, LoggedIs DEF LogLine
    <2>2. \A i \in 1 .. Len(daemon.buffer) : daemon.buffer[i].cursor \in 1 .. daemon.cursor + 1
      BY <1>1
    <2> QED BY <1>1, <2>1, <2>2
  <1>6. ASSUME PresenceArrives \/ SocketCut
        PROVE  Fine(daemon'.buffer, daemon'.cursor)
    <2>1. \/ daemon' = daemon
          \/ daemon'.cursor = daemon.cursor + 1 /\ daemon'.buffer = Buffered(PresenceNotice)
      BY <1>6, PresentIs, CutIs
    <2> HIDE DEF Fine
    <2> QED BY <1>1, <1>2, <2>1, NoticeIs
  <1>7. ASSUME DaemonRestarts
        PROVE  Fine(daemon'.buffer, daemon'.cursor)
    <2>1. daemon'.buffer = <<>>
      BY <1>7, RestartIs
    <2> QED BY <2>1, ReplayLimitAssumption DEF Ordered
  <1>8. Fine(daemon'.buffer, daemon'.cursor)
    <2>1. \/ daemon' = daemon
          \/ \E s \in Shown : SessionUpdated(s)
          \/ LogAppended \/ PresenceArrives \/ SocketCut \/ DaemonRestarts
      BY DEF LiveNext, LiveVars, SocketOpens, Replay, Receive, LoadAnswered, LoadArrives,
             LoadFails, CacheExpires
    <2> HIDE DEF Fine
    <2> QED BY <1>3, <1>4, <1>5, <1>6, <1>7, <2>1
  <1> QED BY <1>8 DEF BufferInv

LEMMA OrderedAppend ==
  ASSUME NEW q \in Seq(LiveEvents), NEW e \in LiveEvents, Ordered(q),
         \A i \in 1 .. Len(q) : q[i].cursor < e.cursor
  PROVE  Ordered(Append(q, e))
  <1>1. /\ Len(Append(q, e)) = Len(q) + 1 /\ Append(q, e)[Len(q) + 1] = e
        /\ \A i \in 1 .. Len(q) : Append(q, e)[i] = q[i]
        /\ Len(q) \in Nat
    OBVIOUS
  <1> DEFINE b == Append(q, e)
  <1> SUFFICES ASSUME NEW i \in 1 .. Len(b), NEW j \in 1 .. Len(b), i < j
               PROVE  b[i].cursor < b[j].cursor
    BY DEF Ordered
  <1> HIDE DEF b
  <1>2. i \in 1 .. Len(q) /\ b[i] = q[i]
    BY <1>1 DEF b
  <1>3. CASE j = Len(q) + 1
    BY <1>1, <1>2, <1>3 DEF b
  <1>4. CASE j # Len(q) + 1
    <2>1. j \in 1 .. Len(q) /\ b[j] = q[j]
      BY <1>1, <1>4 DEF b
    <2> QED BY <1>2, <2>1 DEF Ordered
  <1> QED BY <1>3, <1>4

(* Another event on the socket.                                            *)
LEMMA InAppended ==
  ASSUME NEW q \in Seq(LiveEvents), NEW e \in LiveEvents
  PROVE  /\ \A i \in 1 .. Len(q) : i \in 1 .. Len(Append(q, e)) /\ Append(q, e)[i] = q[i]
         /\ Len(q) + 1 \in 1 .. Len(Append(q, e)) /\ Append(q, e)[Len(q) + 1] = e
         /\ \A i \in 1 .. Len(Append(q, e)) :
              \/ i \in 1 .. Len(q) /\ Append(q, e)[i] = q[i]
              \/ Append(q, e)[i] = e
  OBVIOUS

LEMMA SentCursors ==
  ASSUME LiveTypes, LinkInv, ~lost, link.up, NEW e \in LiveEvents, e.kind # "hello",
         e.cursor = daemon.cursor + 1, daemon'.cursor = daemon.cursor + 1,
         \A x \in LiveEvents :
           x.cursor <= daemon.cursor /\ KeptOrDropped(x, daemon.buffer)
             => KeptOrDropped(x, daemon'.buffer),
         e.kind = "summary" => Among(e, daemon'.buffer),
         link'.channel = Append(link.channel, e), link'.up = link.up,
         link'.after = link.after, link'.replayed = link.replayed,
         link'.overtaken = (link.overtaken \/ ~link.replayed), page' = page
  PROVE  CursorInv'
  <1>1. /\ daemon.cursor \in Nat /\ page.cursor \in Nat /\ link.after \in Nat
        /\ link.channel \in Seq(LiveEvents) /\ CursorInv
        /\ \A i \in 1 .. Len(link.channel) : link.channel[i] \in LiveEvents
    BY DEF LiveTypes, DaemonType, PageType, LinkType, LinkInv
  <1>2. \A x \in LiveEvents : x.cursor \in Nat
    BY DEF LiveEvents
  <1>3. page.cursor <= daemon.cursor + 1 /\ link.after <= daemon.cursor + 1
         /\ page.cursor < e.cursor
    BY <1>1 DEF CursorInv
  <1>4. ASSUME NEW i \in 1 .. Len(link'.channel)
        PROVE  /\ link'.channel[i].cursor <= daemon.cursor + 1
               /\ link'.channel[i].kind = "hello" => link'.channel[i].cursor = 0
               /\ link'.channel[i].kind = "summary" => KeptOrDropped(link'.channel[i], daemon'.buffer)
    <2>1. CASE link'.channel[i] = e
      BY <1>1, <2>1 DEF KeptOrDropped
    <2>2. CASE i \in 1 .. Len(link.channel) /\ link'.channel[i] = link.channel[i]
      <3>1. link.channel[i] \in LiveEvents /\ link.channel[i].cursor <= daemon.cursor
        BY <1>1, <2>2 DEF CursorInv
      <3> QED BY <1>1, <1>2, <2>2, <3>1 DEF CursorInv
    <2> QED BY <1>1, <2>1, <2>2, InAppended
  <1>5. ASSUME ~link'.overtaken
        PROVE  /\ Ordered(link'.channel)
               /\ \A i \in 1 .. Len(link'.channel) :
                    \/ link'.channel[i].kind = "hello"
                    \/ link'.replayed /\ page.cursor < link'.channel[i].cursor
               /\ link'.up /\ ~link'.replayed => page.cursor = link'.after
    <2>1. ~link.overtaken /\ link.replayed
      BY <1>5
    <2>2. Ordered(link.channel) /\ \A i \in 1 .. Len(link.channel) : link.channel[i].cursor < e.cursor
      BY <1>1, <1>2, <2>1 DEF CursorInv
    <2>3. Ordered(link'.channel)
      BY <1>1, <2>2, OrderedAppend
    <2>4. ASSUME NEW i \in 1 .. Len(link'.channel)
          PROVE  link'.channel[i].kind = "hello" \/ page.cursor < link'.channel[i].cursor
      BY <1>1, <1>3, <2>1, InAppended DEF CursorInv
    <2> QED BY <2>1, <2>3, <2>4
  <1> QED BY <1>3, <1>4, <1>5 DEF CursorInv

LEMMA EvictsNothing ==
  ASSUME LiveTypes, BufferInv, NEW e \in LiveEvents, e.kind = "summary",
         e.cursor = daemon.cursor + 1, ~Evicts(e), ~link.up \/ ~link.replayed
  PROVE  \A j \in 1 .. Len(daemon.buffer) :
           (IF link.up THEN link.after ELSE page.cursor) < daemon.buffer[j].cursor
             => Among(daemon.buffer[j], Buffered(e))
  <1> DEFINE q == daemon.buffer
             c == IF link.up THEN link.after ELSE page.cursor
  <1> SUFFICES ASSUME NEW j \in 1 .. Len(q), c < q[j].cursor, ~Among(q[j], Buffered(e))
               PROVE  FALSE
    OBVIOUS
  <1>1. j = 1 /\ Len(q) = ReplayLimit
    BY BufferedKeeps
  <1>2. q \in Seq(LiveEvents) /\ q # <<>> /\ c \in Nat
    BY DEF LiveTypes, DaemonType, LinkType, PageType
  <1>3. Head(q).cursor > c
    <2>1. Head(q) = q[1] /\ q[1] \in LiveEvents
      BY <1>1, <1>2
    <2> QED BY <1>1, <1>2, <2>1 DEF LiveEvents
  <1> QED BY <1>1, <1>3 DEF Evicts

LEMMA UpdatedLink ==
  ASSUME LiveTypes, BufferInv, LinkInv, NEW s \in Shown, SessionUpdated(s)
  PROVE  LinkInv'
  <1>1. PICK e \in LiveEvents, new \in Value : Update(s, e, new)
    BY UpdatedIs
  <1>2. /\ e.kind = "summary" /\ e.cursor = daemon.cursor + 1 /\ e.session = s /\ e.value = new
        /\ daemon'.cursor = daemon.cursor + 1 /\ daemon'.buffer = Buffered(e)
        /\ lost' = (lost \/ Evicts(e))
        /\ link'.up = link.up /\ link'.after = link.after /\ link'.replayed = link.replayed
        /\ link'.viewing = link.viewing /\ page' = page
        /\ daemon'.state = [daemon.state EXCEPT ![s] = new]
    BY <1>1 DEF Update
  <1>3. CASE ~link.up
    <2>1. link' = link /\ link = DownLink
      BY <1>1, <1>3 DEF Update, LinkInv
    <2>2. ASSUME ~lost'
          PROVE  CursorInv' /\ PendingInv'
      <3>1. CursorInv /\ PendingInv /\ ~Evicts(e)
        BY <1>2, <2>2 DEF LinkInv
      <3>2. /\ page.cursor \in Nat /\ daemon.cursor \in Nat
            /\ page.cursor < e.cursor /\ page.cursor <= daemon.cursor + 1
        BY <1>2, <3>1 DEF CursorInv, LiveTypes, PageType, DaemonType
      <3>3. CursorInv'
        <4>1. Len(DownLink.channel) = 0
          BY DownIs
        <4> QED BY <1>2, <2>1, <3>2, <4>1, DownIs DEF CursorInv, Ordered
      <3>4. PendingInv'
        <4> SUFFICES ASSUME NEW x \in Shown,
                            page.overview[x].content < daemon'.state[x].content, page.cursor # 0
                     PROVE  InBuffer(x, page.cursor)'
          BY <1>2, <1>3 DEF PendingInv, Pending
        <4>1. CASE x = s
          <5>1. PICK j \in 1 .. Len(daemon'.buffer) : e = daemon'.buffer[j]
            BY <1>2, BufferedKeeps DEF Among
          <5>2. daemon'.state[s] = new
            BY <1>2 DEF LiveTypes, DaemonType
          <5> QED BY <1>2, <3>2, <4>1, <5>1, <5>2 DEF InBuffer, Carries
        <4>2. CASE x # s
          <5>1. daemon'.state[x] = daemon.state[x]
            BY <1>2, <4>2 DEF LiveTypes, DaemonType
          <5>2. InBuffer(x, page.cursor)
            BY <1>3, <3>1, <5>1 DEF PendingInv, Pending
          <5>3. PICK j \in 1 .. Len(daemon.buffer) :
                  Carries(daemon.buffer[j], x) /\ page.cursor < daemon.buffer[j].cursor
            BY <5>2 DEF InBuffer
          <5>4. Among(daemon.buffer[j], daemon'.buffer)
            BY <1>2, <1>3, <3>1, <5>3, EvictsNothing
          <5> QED BY <1>2, <5>1, <5>3, <5>4 DEF InBuffer, Carries, Among
        <4> QED BY <4>1, <4>2
      <3> QED BY <3>3, <3>4
    <2> QED BY <1>2, <1>3, <2>1, <2>2 DEF LinkInv
  <1>4. CASE link.up
    <2>1. /\ link'.channel = Append(link.channel, e) /\ link.channel \in Seq(LiveEvents)
          /\ link'.overtaken = (link.overtaken \/ ~link.replayed)
      BY <1>1, <1>4 DEF Update, LiveTypes, LinkType
    <2>2. ASSUME ~lost'
          PROVE  CursorInv' /\ PendingInv'
      <3>1. CursorInv /\ PendingInv /\ ~Evicts(e) /\ ~lost
        BY <1>2, <2>2 DEF LinkInv
      <3>2. CursorInv'
        <4>1. /\ \A x \in LiveEvents :
                   x.cursor <= daemon.cursor /\ KeptOrDropped(x, daemon.buffer)
                     => KeptOrDropped(x, daemon'.buffer)
              /\ Among(e, daemon'.buffer)
          BY <1>2, BufferedKeeps
        <4> QED BY <1>2, <1>4, <2>1, <3>1, <4>1, SentCursors
      <3>3. PendingInv'
        <4> SUFFICES ASSUME NEW x \in Shown, page.overview[x].content < daemon'.state[x].content
                     PROVE  Pending(x)'
          BY <1>2 DEF PendingInv
        <4>1. CASE x = s
          <5>1. daemon'.state[s] = new
            BY <1>2 DEF LiveTypes, DaemonType
          <5>2. InChannel(s)'
            BY <1>2, <2>1, <5>1, InAppended DEF InChannel, Carries
          <5> QED BY <1>2, <1>4, <4>1, <5>2 DEF Pending
        <4>2. CASE x # s
          <5>1. daemon'.state[x] = daemon.state[x]
            BY <1>2, <4>2 DEF LiveTypes, DaemonType
          <5>2. Pending(x)
            BY <3>1, <5>1 DEF PendingInv
          <5>3. CASE InChannel(x)
            <6>1. InChannel(x)'
              BY <2>1, <5>1, <5>3, InAppended DEF InChannel, Carries
            <6> QED BY <1>2, <1>4, <6>1 DEF Pending
          <5>4. CASE ~link.replayed /\ link.after # 0 /\ InBuffer(x, link.after)
            <6>1. PICK j \in 1 .. Len(daemon.buffer) :
                    Carries(daemon.buffer[j], x) /\ link.after < daemon.buffer[j].cursor
              BY <5>4 DEF InBuffer
            <6>2. Among(daemon.buffer[j], daemon'.buffer)
              BY <1>2, <1>4, <3>1, <5>4, <6>1, EvictsNothing
            <6>3. InBuffer(x, link.after)'
              BY <1>2, <5>1, <6>1, <6>2 DEF InBuffer, Carries, Among
            <6> QED BY <1>2, <1>4, <5>4, <6>3 DEF Pending
          <5> QED BY <1>4, <5>2, <5>3, <5>4 DEF Pending
        <4> QED BY <4>1, <4>2
      <3> QED BY <3>2, <3>3
    <2> QED BY <1>2, <1>4, <2>2 DEF LinkInv
  <1> QED BY <1>3, <1>4

LEMMA LoggedLink ==
  ASSUME LiveTypes, LinkInv, LogAppended
  PROVE  LinkInv'
  <1>1. PICK e \in LiveEvents, new \in Value : LogLine(e, new)
    BY LoggedIs
  <1>2. /\ e.kind = "log" /\ e.cursor = daemon.cursor + 1
        /\ daemon'.cursor = daemon.cursor + 1 /\ daemon'.buffer = daemon.buffer
        /\ lost' = lost /\ page' = page
        /\ link'.up = link.up /\ link'.after = link.after /\ link'.replayed = link.replayed
        /\ link'.viewing = link.viewing
        /\ \/ link' = link
           \/ /\ link.up /\ link.viewing
              /\ link'.channel = Append(link.channel, e)
              /\ link'.overtaken = (link.overtaken \/ ~link.replayed)
    BY <1>1 DEF LogLine
  <1>3. \A x \in Shown : daemon'.state[x].content = daemon.state[x].content
    BY <1>1 DEF LogLine, LiveTypes, DaemonType
  <1>4. link.channel \in Seq(LiveEvents) /\ daemon.cursor \in Nat /\ page.cursor \in Nat
         /\ link.after \in Nat
    BY DEF LiveTypes, LinkType, DaemonType, PageType
  <1>5. ASSUME ~lost PROVE CursorInv'
    <2>1. CASE link' = link
      <3>1. \A i \in 1 .. Len(link.channel) : link.channel[i] \in LiveEvents
        BY <1>4
      <3>2. \A i \in 1 .. Len(link.channel) : link.channel[i].cursor \in Nat
        BY <3>1 DEF LiveEvents
      <3> QED BY <1>2, <1>4, <1>5, <2>1, <3>2 DEF LinkInv, CursorInv
    <2>2. CASE link' # link
      BY <1>2, <1>5, <2>2, SentCursors
    <2> QED BY <2>1, <2>2
  <1>6. ASSUME ~lost PROVE PendingInv'
    <2> SUFFICES ASSUME NEW x \in Shown, page.overview[x].content < daemon'.state[x].content
                 PROVE  Pending(x)'
      BY <1>2 DEF PendingInv
    <2>1. Pending(x)
      BY <1>3, <1>6 DEF LinkInv, PendingInv
    <2>2. InBuffer(x, link.after)' <=> InBuffer(x, link.after)
      BY <1>2, <1>3 DEF InBuffer, Carries
    <2>3. InBuffer(x, page.cursor)' <=> InBuffer(x, page.cursor)
      BY <1>2, <1>3 DEF InBuffer, Carries
    <2>4. InChannel(x) => InChannel(x)'
      <3>1. CASE link' = link
        BY <1>3, <3>1 DEF InChannel, Carries
      <3>2. CASE link'.channel = Append(link.channel, e)
        BY <1>3, <1>4, <3>2, InAppended DEF InChannel, Carries
      <3> QED BY <1>2, <3>1, <3>2
    <2> QED BY <1>2, <2>1, <2>2, <2>3, <2>4 DEF Pending
  <1>7. /\ ~link'.up => link' = DownLink
        /\ link'.up /\ ~link'.replayed => ~link'.viewing
    BY <1>2 DEF LinkInv
  <1> QED BY <1>2, <1>5, <1>6, <1>7 DEF LinkInv

LEMMA PresentLink ==
  ASSUME LiveTypes, BufferInv, LinkInv, PresenceArrives
  PROVE  LinkInv'
  <1> DEFINE e == PresenceNotice
  <1>1. e \in LiveEvents /\ e.kind = "summary" /\ e.cursor = daemon.cursor + 1
    BY NoticeIs
  <1>2. /\ link.up /\ link.replayed /\ daemon'.state = daemon.state
        /\ daemon'.cursor = daemon.cursor + 1 /\ daemon'.buffer = Buffered(e)
        /\ link'.up = link.up /\ link'.after = link.after /\ link'.replayed = link.replayed
        /\ link'.overtaken = link.overtaken /\ link'.channel = Append(link.channel, e)
        /\ page' = page /\ lost' = lost
    BY PresentIs
  <1> HIDE DEF e
  <1>3. link.channel \in Seq(LiveEvents) /\ link.overtaken \in BOOLEAN /\ link.replayed \in BOOLEAN
    BY DEF LiveTypes, LinkType
  <1>4. ASSUME ~lost PROVE CursorInv'
    <2>1. /\ \A x \in LiveEvents :
               x.cursor <= daemon.cursor /\ KeptOrDropped(x, daemon.buffer)
                 => KeptOrDropped(x, daemon'.buffer)
          /\ Among(e, daemon'.buffer)
      BY <1>1, <1>2, BufferedKeeps
    <2>2. link'.overtaken = (link.overtaken \/ ~link.replayed)
      BY <1>2, <1>3
    <2> QED BY <1>1, <1>2, <1>4, <2>1, <2>2, SentCursors
  <1>5. ASSUME ~lost PROVE PendingInv'
    <2> SUFFICES ASSUME NEW x \in Shown, page.overview[x].content < daemon.state[x].content
                 PROVE  Pending(x)'
      BY <1>2 DEF PendingInv
    <2>1. InChannel(x)
      BY <1>2, <1>5 DEF LinkInv, PendingInv, Pending
    <2>2. InChannel(x)'
      BY <1>1, <1>2, <1>3, <2>1, InAppended DEF InChannel, Carries
    <2> QED BY <1>2, <2>2 DEF Pending
  <1> QED BY <1>2, <1>4, <1>5 DEF LinkInv

LEMMA CutLink ==
  ASSUME LiveTypes, BufferInv, LinkInv, SocketCut
  PROVE  LinkInv'
  <1> DEFINE b == daemon'.buffer
  <1>1. /\ link.up /\ link' = DownLink /\ page' = page /\ daemon'.state = daemon.state
        /\ lost' = (lost \/ OutOfReach(b)) /\ b \in Seq(LiveEvents)
        /\ \/ daemon' = daemon
           \/ link.viewing /\ daemon'.cursor = daemon.cursor + 1 /\ b = Buffered(PresenceNotice)
    BY CutIs DEF DaemonType
  <1>2. /\ link.channel \in Seq(LiveEvents) /\ daemon.cursor \in Nat /\ page.cursor \in Nat
        /\ \A i \in 1 .. Len(link.channel) : link.channel[i] \in LiveEvents
    BY DEF LiveTypes, LinkType, DaemonType, PageType
  <1>3. \A x \in LiveEvents :
          x.cursor <= daemon.cursor /\ KeptOrDropped(x, daemon.buffer) => KeptOrDropped(x, b)
    BY <1>1, BufferedKeeps, NoticeIs
  <1>4. daemon.cursor <= daemon'.cursor /\ daemon'.cursor \in Nat
    BY <1>1, <1>2
  <1> HIDE DEF b
  <1>5. ASSUME ~lost'
        PROVE  CursorInv' /\ PendingInv'
    <2>1. /\ CursorInv /\ PendingInv /\ ~link.overtaken /\ ~(page.cursor = 0 /\ Behind)
          /\ Dropped(b) = {}
      BY <1>1, <1>5 DEF LinkInv, OutOfReach
    <2>2. page.cursor <= daemon'.cursor
      BY <1>2, <1>4, <2>1 DEF CursorInv
    <2>3. CursorInv'
      <3>1. Len(DownLink.channel) = 0
        BY DownIs
      <3> QED BY <1>1, <1>4, <2>2, <3>1, DownIs DEF CursorInv, Ordered
    <2>4. PendingInv'
      <3> SUFFICES ASSUME NEW x \in Shown, page.overview[x].content < daemon.state[x].content
                   PROVE  InBuffer(x, page.cursor)'
        BY <1>1, DownIs DEF PendingInv, Pending
      <3>1. page.cursor # 0 /\ Pending(x)
        BY <2>1 DEF Behind, PendingInv
      <3>2. CASE InChannel(x)
        <4>1. PICK i \in 1 .. Len(link.channel) : Carries(link.channel[i], x)
          BY <3>2 DEF InChannel
        <4> DEFINE e == link.channel[i]
        <4>2. e \in LiveEvents /\ e.kind = "summary" /\ e \in Range(link.channel)
          BY <1>2, <4>1 DEF Carries, Range
        <4>3. KeptOrDropped(e, b) /\ page.cursor < e.cursor
          BY <1>3, <2>1, <4>2 DEF CursorInv
        <4> HIDE DEF e
        <4>4. Among(e, b)
          <5>1. ~(Len(b) = ReplayLimit /\ e.cursor < Head(b).cursor)
            BY <2>1, <4>2 DEF Dropped
          <5>2. ~(Len(b) = ReplayLimit /\ e.cursor < b[1].cursor)
            BY <1>1, <5>1, ReplayLimitAssumption
          <5> QED BY <4>3, <5>2 DEF KeptOrDropped
        <4>5. e.kind = "summary" /\ e.session = x /\ e.value.content = daemon'.state[x].content
          BY <1>1, <4>1 DEF e, Carries
        <4> QED BY <1>1, <4>3, <4>4, <4>5 DEF b, InBuffer, Carries, Among
      <3>3. CASE ~link.replayed /\ InBuffer(x, link.after)
        <4>1. daemon' = daemon /\ page.cursor = link.after
          BY <1>1, <2>1, <3>3 DEF LinkInv, CursorInv
        <4> QED BY <1>1, <3>3, <4>1 DEF InBuffer, Carries
      <3> QED BY <1>1, <3>1, <3>2, <3>3 DEF Pending
    <2> QED BY <2>3, <2>4
  <1> QED BY <1>1, <1>5, DownIs DEF LinkInv

LEMMA OpensLink ==
  ASSUME LiveTypes, LinkInv, SocketOpens
  PROVE  LinkInv'
  <1>1. /\ ~link.up /\ daemon' = daemon /\ page' = page
        /\ lost' = (lost \/ (page.cursor = 0 /\ Behind))
        /\ link'.up = TRUE /\ link'.after = page.cursor
        /\ link'.replayed = FALSE /\ link'.viewing = FALSE /\ link'.overtaken = FALSE
        /\ link'.channel = <<Hello>> /\ Hello.kind = "hello" /\ Hello.cursor = 0
    BY OpensIs
  <1>2. /\ Len(link'.channel) = 1 /\ link'.channel[1] = Hello
        /\ daemon.cursor \in Nat /\ page.cursor \in Nat
    BY <1>1 DEF LiveTypes, DaemonType, PageType
  <1>3. \A i \in 1 .. Len(link'.channel) : link'.channel[i] = Hello /\ i = 1
    BY <1>2
  <1>4. ASSUME ~lost'
        PROVE  CursorInv' /\ PendingInv'
    <2>1. CursorInv /\ PendingInv /\ ~(page.cursor = 0 /\ Behind)
      BY <1>1, <1>4 DEF LinkInv
    <2>2. Ordered(link'.channel)
      BY <1>3 DEF Ordered
    <2>3. CursorInv'
      <3> HIDE DEF Hello
      <3>1. page.cursor <= daemon.cursor
        BY <2>1 DEF CursorInv
      <3>2. \A i \in 1 .. Len(link'.channel) :
              /\ link'.channel[i].cursor <= daemon.cursor
              /\ link'.channel[i].kind = "hello" /\ link'.channel[i].cursor = 0
        BY <1>1, <1>2, <1>3
      <3> QED BY <1>1, <2>2, <3>1, <3>2 DEF CursorInv
    <2>4. PendingInv'
      <3> SUFFICES ASSUME NEW x \in Shown, page.overview[x].content < daemon.state[x].content
                   PROVE  Pending(x)'
        BY <1>1 DEF PendingInv
      <3>1. page.cursor # 0 /\ InBuffer(x, page.cursor)
        BY <1>1, <2>1 DEF Behind, PendingInv, Pending
      <3>2. InBuffer(x, link.after)'
        BY <1>1, <3>1 DEF InBuffer, Carries
      <3> QED BY <1>1, <3>1, <3>2 DEF Pending
    <2> QED BY <2>3, <2>4
  <1> QED BY <1>1, <1>4 DEF LinkInv

(* Two sequences in a row.                                                 *)
LEMMA InConcat ==
  ASSUME NEW q \in Seq(LiveEvents), NEW r \in Seq(LiveEvents)
  PROVE  /\ \A i \in 1 .. Len(q) : i \in 1 .. Len(q \o r) /\ (q \o r)[i] = q[i]
         /\ \A k \in 1 .. Len(r) : Len(q) + k \in 1 .. Len(q \o r) /\ (q \o r)[Len(q) + k] = r[k]
         /\ \A i \in 1 .. Len(q \o r) :
              \/ i \in 1 .. Len(q) /\ (q \o r)[i] = q[i]
              \/ i - Len(q) \in 1 .. Len(r) /\ (q \o r)[i] = r[i - Len(q)]
  OBVIOUS

LEMMA OrderedConcat ==
  ASSUME NEW q \in Seq(LiveEvents), NEW r \in Seq(LiveEvents), Ordered(q), Ordered(r),
         \A i \in 1 .. Len(q), k \in 1 .. Len(r) : q[i].cursor < r[k].cursor
  PROVE  Ordered(q \o r)
  <1> DEFINE b == q \o r
  <1>1. \A i \in 1 .. Len(b) :
          \/ i \in 1 .. Len(q) /\ b[i] = q[i]
          \/ i - Len(q) \in 1 .. Len(r) /\ b[i] = r[i - Len(q)]
    BY InConcat
  <1>2. Len(q) \in Nat /\ Len(r) \in Nat /\ Len(b) \in Nat
    OBVIOUS
  <1> HIDE DEF b
  <1> SUFFICES ASSUME NEW i \in 1 .. Len(b), NEW j \in 1 .. Len(b), i < j
               PROVE  b[i].cursor < b[j].cursor
    BY DEF b, Ordered
  <1>3. CASE i \in 1 .. Len(q) /\ b[i] = q[i] /\ j \in 1 .. Len(q) /\ b[j] = q[j]
    BY <1>3 DEF Ordered
  <1>4. CASE /\ i \in 1 .. Len(q) /\ b[i] = q[i]
             /\ j - Len(q) \in 1 .. Len(r) /\ b[j] = r[j - Len(q)]
    BY <1>4
  <1>5. CASE /\ i - Len(q) \in 1 .. Len(r) /\ b[i] = r[i - Len(q)]
             /\ j - Len(q) \in 1 .. Len(r) /\ b[j] = r[j - Len(q)]
    <2>1. i - Len(q) < j - Len(q)
      BY <1>2
    <2> QED BY <1>5, <2>1 DEF Ordered
  <1>6. ~(i - Len(q) \in 1 .. Len(r) /\ j \in 1 .. Len(q))
    BY <1>2
  <1> QED BY <1>1, <1>3, <1>4, <1>5, <1>6

LEMMA ReplayLink ==
  ASSUME LiveTypes, BufferInv, LinkInv, Replay
  PROVE  LinkInv'
  <1> DEFINE r == ReadAfter(link.after)
             q == link.channel
  <1>1. /\ link.up /\ ~link.replayed /\ daemon' = daemon /\ page' = page /\ lost' = lost
        /\ link'.up = link.up /\ link'.after = link.after /\ link'.replayed = TRUE
        /\ link'.overtaken = link.overtaken /\ link'.channel = q \o r /\ r \in Seq(LiveEvents)
    BY ReplayIs DEF BufferInv
  <1>2. /\ q \in Seq(LiveEvents) /\ link.after \in Nat /\ page.cursor \in Nat
        /\ daemon.cursor \in Nat
    BY DEF LiveTypes, LinkType, PageType, DaemonType
  <1>3. /\ Ordered(r)
        /\ \A i \in 1 .. Len(r) : Among(r[i], daemon.buffer) /\ link.after < r[i].cursor
        /\ \A j \in 1 .. Len(daemon.buffer) :
             link.after # 0 /\ link.after < daemon.buffer[j].cursor
               => \E i \in 1 .. Len(r) : r[i] = daemon.buffer[j]
    <2>1. CASE link.after = 0
      <3>1. r = <<>>
        BY <2>1 DEF ReadAfter
      <3>2. Len(r) = 0
        BY <3>1
      <3> QED BY <2>1, <3>2 DEF Ordered
    <2>2. CASE link.after # 0
      <3>1. r = Unpassed(link.after)
        BY <2>2 DEF ReadAfter
      <3>2. /\ Ordered(r)
            /\ \A i \in 1 .. Len(r) :
                 \E j \in 1 .. Len(daemon.buffer) :
                   r[i] = daemon.buffer[j] /\ link.after < daemon.buffer[j].cursor
            /\ \A j \in 1 .. Len(daemon.buffer) :
                 link.after < daemon.buffer[j].cursor
                   => \E i \in 1 .. Len(r) : r[i] = daemon.buffer[j]
        <4>1. Ordered(daemon.buffer)
          BY DEF BufferInv
        <4> DEFINE u == Unpassed(link.after)
        <4>2. /\ Ordered(u)
              /\ \A i \in 1 .. Len(u) :
                   \E j \in 1 .. Len(daemon.buffer) :
                     u[i] = daemon.buffer[j] /\ link.after < daemon.buffer[j].cursor
              /\ \A j \in 1 .. Len(daemon.buffer) :
                   link.after < daemon.buffer[j].cursor
                     => \E i \in 1 .. Len(u) : u[i] = daemon.buffer[j]
          BY <1>2, <4>1, UnpassedIs
        <4>3. r = u
          BY <3>1
        <4> HIDE DEF r, u
        <4> QED BY <4>2, <4>3
      <3> HIDE DEF r
      <3> QED BY <3>2 DEF Among
    <2> QED BY <2>1, <2>2
  <1> HIDE DEF r, q
  <1>4. \A i \in 1 .. Len(r) : r[i].kind = "summary" /\ r[i].cursor \in 1 .. daemon.cursor
    BY <1>3 DEF BufferInv, Among
  <1>5. ASSUME ~lost PROVE CursorInv'
    <2>1. CursorInv
      BY <1>5 DEF LinkInv
    <2>2. \A i \in 1 .. Len(link'.channel) :
            /\ link'.channel[i].cursor <= daemon.cursor
            /\ link'.channel[i].kind = "hello" => link'.channel[i].cursor = 0
            /\ link'.channel[i].kind = "summary" => KeptOrDropped(link'.channel[i], daemon.buffer)
      <3> SUFFICES ASSUME NEW i \in 1 .. Len(link'.channel)
                   PROVE  /\ link'.channel[i].cursor <= daemon.cursor
                          /\ link'.channel[i].kind = "hello" => link'.channel[i].cursor = 0
                          /\ link'.channel[i].kind = "summary"
                               => KeptOrDropped(link'.channel[i], daemon.buffer)
        OBVIOUS
      <3>1. CASE i \in 1 .. Len(q) /\ link'.channel[i] = q[i]
        BY <2>1, <3>1 DEF CursorInv, q
      <3>2. CASE i - Len(q) \in 1 .. Len(r) /\ link'.channel[i] = r[i - Len(q)]
        <4>1. /\ Among(r[i - Len(q)], daemon.buffer) /\ r[i - Len(q)].kind = "summary"
              /\ r[i - Len(q)].cursor \in 1 .. daemon.cursor
          BY <1>3, <1>4, <3>2
        <4> QED BY <1>2, <3>2, <4>1 DEF KeptOrDropped
      <3> QED BY <1>1, <1>2, <3>1, <3>2, InConcat
    <2>3. ASSUME ~link.overtaken
          PROVE  /\ Ordered(link'.channel)
                 /\ \A i \in 1 .. Len(link'.channel) :
                      link'.channel[i].kind = "hello" \/ page.cursor < link'.channel[i].cursor
      <3>1. /\ Ordered(q) /\ page.cursor = link.after
            /\ \A i \in 1 .. Len(q) : q[i].kind = "hello" /\ q[i].cursor = 0
        BY <1>1, <2>1, <2>3 DEF CursorInv, q
      <3>2. \A i \in 1 .. Len(q), k \in 1 .. Len(r) : q[i].cursor < r[k].cursor
        BY <1>2, <1>4, <3>1
      <3>3. Ordered(link'.channel)
        BY <1>1, <1>2, <1>3, <3>1, <3>2, OrderedConcat
      <3>4. ASSUME NEW i \in 1 .. Len(link'.channel)
            PROVE  link'.channel[i].kind = "hello" \/ page.cursor < link'.channel[i].cursor
        BY <1>1, <1>2, <1>3, <3>1, InConcat
      <3> QED BY <3>3, <3>4
    <2> QED BY <1>1, <2>1, <2>2, <2>3 DEF CursorInv
  <1>6. ASSUME ~lost PROVE PendingInv'
    <2> SUFFICES ASSUME NEW x \in Shown, page.overview[x].content < daemon.state[x].content
                 PROVE  InChannel(x)'
      BY <1>1 DEF PendingInv, Pending
    <2>1. Pending(x)
      BY <1>6 DEF LinkInv, PendingInv
    <2>2. CASE InChannel(x)
      BY <1>1, <1>2, <2>2, InConcat DEF InChannel, Carries, q
    <2>3. CASE link.after # 0 /\ InBuffer(x, link.after)
      <3>1. PICK j \in 1 .. Len(daemon.buffer) :
              Carries(daemon.buffer[j], x) /\ link.after < daemon.buffer[j].cursor
        BY <2>3 DEF InBuffer
      <3>2. PICK k \in 1 .. Len(r) : r[k] = daemon.buffer[j]
        BY <1>3, <2>3, <3>1
      <3>3. Len(q) + k \in 1 .. Len(link'.channel) /\ link'.channel[Len(q) + k] = r[k]
        BY <1>1, <1>2, InConcat
      <3> QED BY <1>1, <3>1, <3>2, <3>3 DEF InChannel, Carries
    <2> QED BY <1>1, <2>1, <2>2, <2>3 DEF Pending
  <1> QED BY <1>1, <1>5, <1>6 DEF LinkInv

LEMMA ReceiveLink ==
  ASSUME LiveTypes, OrderInv, LinkInv, Receive, LiveTypes', PageKeepsUp
  PROVE  LinkInv'
  <1> DEFINE q == link.channel
  <1>1. PICK e \in LiveEvents :
           /\ link.up /\ q # <<>> /\ e = q[1]
           /\ daemon' = daemon /\ lost' = lost
           /\ link'.up = link.up /\ link'.after = link.after
           /\ link'.replayed = link.replayed /\ link'.viewing = link.viewing
           /\ link'.overtaken = link.overtaken /\ link'.channel = Tail(q)
           /\ page'.cursor = IF e.kind = "hello" THEN page.cursor ELSE e.cursor
           /\ page'.overview = IF e.kind = "summary"
                               THEN [page.overview EXCEPT ![e.session] = Newer(@, e.value)]
                               ELSE page.overview
    BY ReceiveIs
  <1>2. /\ q \in Seq(LiveEvents) /\ link.after \in Nat /\ page.cursor \in Nat
        /\ daemon.cursor \in Nat /\ page.overview \in [Shown -> Value]
        /\ page'.overview \in [Shown -> Value] /\ daemon.state \in [Shown -> Value]
    BY DEF LiveTypes, LinkType, PageType, DaemonType
  <1> HIDE DEF q
  <1>3. /\ Len(q) \in Nat /\ 1 \in 1 .. Len(q)
        /\ \A i \in 1 .. Len(link'.channel) : i + 1 \in 1 .. Len(q) /\ link'.channel[i] = q[i + 1]
        /\ \A i \in 1 .. Len(q) :
             i # 1 => i - 1 \in 1 .. Len(link'.channel) /\ link'.channel[i - 1] = q[i]
        /\ \A i \in 1 .. Len(q) : q[i] \in LiveEvents
    BY <1>1, <1>2
  <1>4. \A i \in 1 .. Len(q) : q[i].cursor \in Nat
    BY <1>3 DEF LiveEvents
  <1>5. ASSUME ~lost PROVE CursorInv'
    <2>1. CursorInv
      BY <1>5 DEF LinkInv
    <2>2. page'.cursor <= daemon.cursor
      BY <1>1, <1>3, <2>1 DEF CursorInv, q
    <2>3. \A i \in 1 .. Len(link'.channel) :
            /\ link'.channel[i].cursor <= daemon.cursor
            /\ link'.channel[i].kind = "hello" => link'.channel[i].cursor = 0
            /\ link'.channel[i].kind = "summary" => KeptOrDropped(link'.channel[i], daemon.buffer)
      <3> SUFFICES ASSUME NEW i \in 1 .. Len(link'.channel)
                   PROVE  /\ link'.channel[i].cursor <= daemon.cursor
                          /\ link'.channel[i].kind = "hello" => link'.channel[i].cursor = 0
                          /\ link'.channel[i].kind = "summary"
                               => KeptOrDropped(link'.channel[i], daemon.buffer)
        OBVIOUS
      <3>1. i + 1 \in 1 .. Len(q) /\ link'.channel[i] = q[i + 1]
        BY <1>3
      <3> DEFINE x == q[i + 1]
      <3>2. /\ x.cursor <= daemon.cursor
            /\ x.kind = "hello" => x.cursor = 0
            /\ x.kind = "summary" => KeptOrDropped(x, daemon.buffer)
        BY <2>1, <3>1 DEF CursorInv, q
      <3> QED BY <3>1, <3>2
    <2>4. ASSUME ~link.overtaken
          PROVE  /\ Ordered(link'.channel)
                 /\ \A i \in 1 .. Len(link'.channel) :
                      \/ link'.channel[i].kind = "hello"
                      \/ link.replayed /\ page'.cursor < link'.channel[i].cursor
                 /\ ~link.replayed => page'.cursor = link.after
      <3>1. /\ Ordered(q)
            /\ \A i \in 1 .. Len(q) :
                 q[i].kind = "hello" \/ (link.replayed /\ page.cursor < q[i].cursor)
            /\ ~link.replayed => page.cursor = link.after
        BY <1>1, <2>1, <2>4 DEF CursorInv, q
      <3>2. Ordered(link'.channel)
        <4> SUFFICES ASSUME NEW i \in 1 .. Len(link'.channel), NEW j \in 1 .. Len(link'.channel),
                            i < j
                     PROVE  link'.channel[i].cursor < link'.channel[j].cursor
          BY DEF Ordered
        <4>1. i + 1 < j + 1
          OBVIOUS
        <4> QED BY <1>3, <3>1, <4>1 DEF Ordered
      <3>3. ASSUME NEW i \in 1 .. Len(link'.channel), link'.channel[i].kind # "hello"
            PROVE  link.replayed /\ page'.cursor < link'.channel[i].cursor
        <4>1. i + 1 \in 1 .. Len(q) /\ link'.channel[i] = q[i + 1] /\ 1 < i + 1
          BY <1>3
        <4>2. link.replayed /\ page.cursor < q[i + 1].cursor /\ q[1].cursor < q[i + 1].cursor
          BY <1>3, <3>1, <3>3, <4>1 DEF Ordered
        <4> QED BY <1>1, <4>1, <4>2
      <3>4. ~link.replayed => page'.cursor = link.after
        BY <1>1, <1>3, <3>1
      <3> QED BY <3>2, <3>3, <3>4
    <2> QED BY <1>1, <2>1, <2>2, <2>3, <2>4 DEF CursorInv
  <1>6. ASSUME ~lost PROVE PendingInv'
    <2> SUFFICES ASSUME NEW x \in Shown, page'.overview[x].content < daemon.state[x].content
                 PROVE  Pending(x)'
      BY <1>1 DEF PendingInv
    <2>1. /\ page.overview[x] \in Value /\ page'.overview[x] \in Value
          /\ daemon.state[x] \in Value /\ e.value \in Value
          /\ page.overview[x].content <= page'.overview[x].content
      BY <1>2 DEF PageKeepsUp, LiveEvents
    <2>2. Pending(x)
      <3>1. page.overview[x].content < daemon.state[x].content
        BY <2>1 DEF Value
      <3> QED BY <1>6, <3>1 DEF LinkInv, PendingInv
    <2>3. ~Carries(e, x)
      <3> SUFFICES ASSUME Carries(e, x) PROVE FALSE
        OBVIOUS
      <3>1. e.session = x /\ e.value.content = daemon.state[x].content
             /\ page'.overview[x] = Newer(page.overview[x], e.value)
        BY <1>1, <1>2 DEF Carries
      <3>2. OnItsWay(x, e.value) /\ OnItsWay(x, page.overview[x])
        BY <1>1, <1>3, <3>1 DEF OnItsWay, q
      <3>3. e.value.at <= page.overview[x].at => e.value.content <= page.overview[x].content
        BY <2>1, <3>2 DEF OrderInv, SourceInv
      <3>4. /\ e.value.at \in Nat /\ page.overview[x].at \in Nat
            /\ e.value.content \in Nat /\ page.overview[x].content \in Nat
        BY <2>1 DEF Value
      <3>5. CASE e.value.at < page.overview[x].at
        BY <3>1, <3>3, <3>4, <3>5 DEF Newer
      <3>6. CASE ~(e.value.at < page.overview[x].at)
        BY <3>1, <3>4, <3>6 DEF Newer
      <3> QED BY <3>5, <3>6
    <2>4. CASE InChannel(x)
      <3>1. PICK i \in 1 .. Len(q) : Carries(q[i], x)
        BY <2>4 DEF InChannel, q
      <3>2. i # 1
        BY <1>1, <2>3, <3>1
      <3>3. i - 1 \in 1 .. Len(link'.channel) /\ link'.channel[i - 1] = q[i]
        BY <1>3, <3>2
      <3>4. InChannel(x)'
        BY <1>1, <3>1, <3>3 DEF InChannel, Carries
      <3> QED BY <1>1, <3>4 DEF Pending
    <2>5. CASE ~link.replayed /\ link.after # 0 /\ InBuffer(x, link.after)
      <3>1. InBuffer(x, link.after)'
        BY <1>1, <2>5 DEF InBuffer, Carries
      <3> QED BY <1>1, <2>5, <3>1 DEF Pending
    <2> QED BY <1>1, <2>2, <2>4, <2>5 DEF Pending
  <1> QED BY <1>1, <1>5, <1>6 DEF LinkInv

(* The steps of the request, and the loss of the daemon.                   *)
LEMMA OtherLink ==
  ASSUME LiveTypes, LinkInv,
         LoadAnswered \/ LoadArrives \/ LoadFails \/ CacheExpires \/ DaemonRestarts
           \/ UNCHANGED LiveVars
  PROVE  LinkInv'
  <1>1. CASE DaemonRestarts
    BY <1>1, RestartIs, DownIs DEF LinkInv
  <1>2. CASE ~DaemonRestarts
    <2>1. /\ daemon' = daemon /\ link' = link /\ lost' = lost
          /\ page'.cursor = page.cursor /\ page'.overview = page.overview
      BY <1>2, AnsweredIs, ArrivesIs, ForgetsIs DEF LiveVars
    <2>2. CursorInv => CursorInv'
      BY <2>1 DEF CursorInv
    <2>3. PendingInv => PendingInv'
      BY <2>1 DEF PendingInv, Pending, InChannel, InBuffer, Carries
    <2> QED BY <2>1, <2>2, <2>3 DEF LinkInv
  <1> QED BY <1>1, <1>2

LEMMA LiveStart == LiveInit => LiveInv
  <1> SUFFICES ASSUME LiveInit PROVE LiveInv
    OBVIOUS
  <1> DEFINE none == <<>>
             zero == [s \in Shown |-> Blank]
  <1>1. /\ Blank \in Value /\ Blank.content = 0 /\ Blank.at = 0 /\ NoLoad.value = Blank
        /\ NoLoad \in [step : {"none", "asked", "answered"}, value : Value]
    BY BlankValue DEF NoLoad
  <1>2. none \in Seq(LiveEvents) /\ none \in Seq(Value) /\ Len(none) = 0
    OBVIOUS
  <1>3. zero \in [Shown -> Value] /\ \A s \in Shown : zero[s] = Blank
    BY <1>1
  <1>4. /\ daemon = [clock |-> 0, state |-> zero, cursor |-> 0, buffer |-> none]
        /\ link = DownLink /\ lost = FALSE
        /\ page = [cursor |-> 0, overview |-> zero, detail |-> Blank, load |-> NoLoad,
                   cached |-> none]
    BY DEF LiveInit
  <1> HIDE DEF none, zero
  <1>5. /\ daemon \in DaemonType /\ daemon.clock = 0 /\ daemon.state = zero /\ daemon.cursor = 0
        /\ daemon.buffer = none
    BY <1>2, <1>3, <1>4 DEF DaemonType
  <1>6. /\ page \in PageType /\ page.cursor = 0 /\ page.overview = zero /\ page.detail = Blank
        /\ page.load.value = Blank /\ page.cached = none
    BY <1>1, <1>2, <1>3, <1>4 DEF PageType
  <1>7. LiveTypes
    BY <1>4, <1>5, <1>6, DownIs DEF LiveTypes
  <1>8. Len(link.channel) = 0 /\ none = <<>> /\ link.up = FALSE /\ link.after = 0
    BY <1>4, DownIs DEF none
  <1>9. \A s \in Shown : \A v : OnItsWay(s, v) => v = Blank
    BY <1>2, <1>3, <1>5, <1>6, <1>8 DEF OnItsWay
  <1>10. OrderInv
    <2>1. SourceInv
      BY <1>1, <1>3, <1>5, <1>9 DEF SourceInv
    <2>2. Behindhand(page.detail)
      BY <1>1, <1>3, <1>5, <1>6, <1>9, SelectedAssumption DEF Behindhand, Value
    <2> QED BY <2>1, <2>2 DEF OrderInv
  <1>11. BufferInv
    BY <1>2, <1>5, ReplayLimitAssumption DEF BufferInv, Ordered
  <1>12. LinkInv
    <2>1. CursorInv
      BY <1>5, <1>6, <1>8 DEF CursorInv, Ordered
    <2>2. PendingInv
      BY <1>6, <1>8 DEF PendingInv, Pending
    <2> QED BY <1>4, <1>8, <2>1, <2>2 DEF LinkInv
  <1> QED BY <1>7, <1>10, <1>11, <1>12 DEF LiveInv

LEMMA LiveStep ==
  ASSUME LiveInv, [LiveNext]_LiveVars
  PROVE  LiveInv' /\ PageKeepsUp
  <1>1. LiveTypes /\ OrderInv /\ BufferInv /\ LinkInv /\ Ordered(daemon.buffer)
    BY DEF LiveInv, BufferInv
  <1>2. LiveTypes' /\ OrderInv' /\ PageKeepsUp
    BY <1>1, OrderStep
  <1>3. BufferInv'
    BY <1>1, BufferStep
  <1>4. LinkInv'
    BY <1>1, <1>2, UpdatedLink, LoggedLink, OpensLink, ReplayLink, PresentLink, CutLink,
       ReceiveLink, OtherLink DEF LiveNext
  <1> QED BY <1>2, <1>3, <1>4 DEF LiveInv

LEMMA LiveMissesNothing == LiveInv => NothingMissed
  <1> SUFFICES ASSUME LiveInv, link.up, link.replayed, link.channel = <<>>, ~lost PROVE ~Behind
    BY DEF NothingMissed
  <1>1. \A s \in Shown : ~InChannel(s)
    <2>1. Len(link.channel) = 0
      OBVIOUS
    <2> QED BY <2>1 DEF InChannel
  <1>2. PendingInv
    BY DEF LiveInv, LinkInv
  <1> QED BY <1>1, <1>2 DEF Behind, PendingInv, Pending

(* What is shown, kept or on its way of a session is a state it has had;   *)
(* the replay buffer is in the order of its cursors, so that what is       *)
(* replayed is exactly what comes after the page's cursor; and what the    *)
(* page lacks is on its way or will be replayed, unless it is known to be  *)
(* out of reach.                                                           *)
THEOREM LiveInvariant == LiveSpec => []LiveInv
  <1>1. LiveInv /\ [LiveNext]_LiveVars => LiveInv'
    BY LiveStep
  <1> QED BY <1>1, LiveStart, PTL DEF LiveSpec

(* A connected page that has received everything shows every session as it *)
(* is, unless an update got out of its reach in one of the known ways.     *)
THEOREM NothingIsMissed == LiveSpec => []NothingMissed
  BY LiveInvariant, LiveMissesNothing, PTL

(* What the page shows of a session never goes back to something older.    *)
THEOREM NeverGoesBack == LiveSpec => NeverOlder
  <1>1. LiveInv /\ [LiveNext]_LiveVars
          => [/\ \A s \in Shown : page.overview[s].content <= page'.overview[s].content
              /\ page.detail.content <= page'.detail.content]_LiveVars
    BY LiveStep DEF PageKeepsUp
  <1> QED BY <1>1, LiveInvariant, PTL DEF LiveSpec, NeverOlder
===============================================================================
