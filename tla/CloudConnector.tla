---------------------------- MODULE CloudConnector ----------------------------
(***************************************************************************)
(* The connector to DeskCue Cloud of an enrolled daemon.  A projection of  *)
(* the sessions goes through a durable outbox, one envelope at a time, to  *)
(* a Cloud that tells where it is whenever the relay connects; commands    *)
(* come back over the same relay, each of them reserved in a durable       *)
(* receipt before it is run.  The relay is lost and reconnected, the user  *)
(* changes what Cloud may do and see, and the daemon stops at any point.   *)
(***************************************************************************)
EXTENDS Naturals, Sequences, SequencesExt, FiniteSets, FiniteSetsExt

CONSTANTS Synced,               \* the sessions that are projected
          OutboxRows,           \* CLOUD_OUTBOX_MAX_RECORDS
          MaxUpdates,           \* how often a session changes
          MaxDisclosures,       \* how often label disclosure is switched
          RemoteCommands,       \* command ids
          MaxCopies,            \* how often Cloud sends one of them
          MaxPermissions,       \* how often the permissions are changed
          CloudFaults,          \* "drop", "refuse", "revoke", "deny", "read", "stop"
          MaxCloudFaults        \* and how many of them there are

ASSUME OutboxRowsAssumption == OutboxRows \in Nat \ {0}

VARIABLES summary,              \* the sessions: how often each has changed
          profile,              \* the enabled profile and its capabilities
          table,                \* cloud_sync_outbox and its cursor
          receipts,             \* cloud_control_receipts
          relay,                \* the connection loop, its socket, the sender
          projection,           \* CloudProjectionCoordinator
          permission,           \* CloudConnectorPermissions.apply
          cloud,                \* what Cloud has, and bounds
          commands              \* executions under way, and all that started

CloudVars ==
  <<summary, profile, table, receipts, relay, projection, permission, cloud, commands>>

(* The relay: waiting for its timer, for a token, for the welcome, or      *)
(* welcomed; "stale" is a token request of an earlier connectionEpoch.     *)
NoMessage == [kind |-> "none"]

Relay(step, control) ==
  [step |-> step, control |-> control, next |-> 1, inFlight |-> 0, wire |-> NoMessage]

NoProjection ==
  [step |-> "none", labels |-> FALSE, versions |-> <<>>,
   stale |-> FALSE, rerun |-> FALSE, finish |-> FALSE]

NoPermission == [step |-> "none", wanted |-> FALSE, revoking |-> FALSE]

FirstRow(s, labels) == [session |-> s, version |-> 1, labels |-> labels, forced |-> FALSE]

(* A daemon that starts again, with everything acknowledged: its labels    *)
(* are disclosed already, or not.                                          *)
CloudInit ==
  /\ summary = [s \in Synced |-> 1]
  /\ \E labels \in BOOLEAN :
       /\ profile = [state |-> "connecting", control |-> TRUE, labels |-> labels,
                     repair |-> FALSE]
       /\ table = [rows |-> SetToSeq({FirstRow(s, labels) : s \in Synced}),
                   acked |-> Cardinality(Synced)]
       /\ cloud = [view |-> [s \in Synced |-> <<1, labels>>], next |-> Cardinality(Synced) + 1,
                   up |-> TRUE, disclosures |-> 0, permissions |-> 0, faults |-> 0]
  /\ receipts = [c \in RemoteCommands |-> "none"]
  /\ relay = Relay("timer", FALSE)
  /\ projection = NoProjection
  /\ permission = NoPermission
  /\ commands = [copies  |-> [c \in RemoteCommands |-> 0],
                 running |-> [c \in RemoteCommands |-> FALSE],
                 started |-> [c \in RemoteCommands |-> 0]]

Fault(kind) ==
  /\ kind \in CloudFaults /\ cloud.faults < MaxCloudFaults
  /\ cloud' = [cloud EXCEPT !.faults = @ + 1]

-----------------------------------------------------------------------------
(* What several handlers call.                                             *)

(* sendNext: one envelope at a time, on an open socket of a profile that   *)
(* is connected.                                                           *)
SendNext(r, t, p) ==
  IF /\ r.step = "welcomed" /\ r.inFlight = 0
     /\ p.state = "connected" /\ r.next <= Len(t.rows)
  THEN [r EXCEPT !.inFlight = r.next, !.wire = [kind |-> "event", row |-> t.rows[r.next]]]
  ELSE r

(* projectNow: one projection at a time; it captures what may be disclosed *)
(* when it begins, and those who ask meanwhile get another one after it.   *)
Begun(p, finish) ==
  [NoProjection EXCEPT !.step = "reading", !.labels = p.labels, !.finish = finish]

ProjectNow(p, finish) ==
  projection' = IF projection.step = "none" THEN Begun(p, finish)
                ELSE [projection EXCEPT !.rerun = TRUE, !.finish = @ \/ finish]

(* finishProjection.                                                       *)
ProjectionDone(p) == projection' = IF projection.rerun THEN Begun(p, FALSE) ELSE NoProjection

(* handleRelayClose: the socket is forgotten and the relay connected again *)
(* after a while, unless Cloud has revoked the machine.                    *)
RelayClosed(p) == [p EXCEPT !.state = IF @ = "revoked" THEN @ ELSE "degraded"]

(* Variant: a relay that was closed is not connected again.                *)
AfterCloseForGood(p) == Relay("off", FALSE)

AfterClose(p) == Relay(IF p.state = "revoked" THEN "off" ELSE "timer", FALSE)

(* Variant: the epoch is not looked at again once the token has come.      *)
DisconnectedLate(r) == IF r.step = "token" THEN r ELSE Relay("off", FALSE)

(* advanceConnectionEpoch, clearReconnectTimer and disconnectSocket.       *)
Disconnected(r) == Relay(IF r.step \in {"token", "stale"} THEN "stale" ELSE "off", FALSE)

-----------------------------------------------------------------------------
(* The sessions and their projection.                                      *)

SummaryChanges(s) ==
  /\ summary[s] <= MaxUpdates
  /\ summary' = [summary EXCEPT ![s] = @ + 1]
  /\ UNCHANGED <<profile, table, receipts, relay, projection, permission, cloud, commands>>

(* A daemon event, debounced, or the interval.                             *)
ProjectionDue ==
  /\ cloud.up
  /\ ProjectNow(profile, FALSE)
  /\ UNCHANGED <<summary, profile, table, receipts, relay, permission, cloud, commands>>

ProjectionReads ==
  /\ projection.step = "reading"
  /\ projection' = [projection EXCEPT !.step = "read", !.versions = summary]
  /\ UNCHANGED <<summary, profile, table, receipts, relay, permission, cloud, commands>>

(* enqueueSummaries: a row for each session whose latest row says          *)
(* something else, or was redacted while it may have been on its way.      *)
RowOf(s) ==
  [session |-> s, version |-> projection.versions[s], labels |-> projection.labels,
   forced |-> FALSE]

Latest(t, s) == t.rows[Max({i \in DOMAIN t.rows : t.rows[i].session = s})]

Enqueued(t) ==
  [t EXCEPT !.rows = @ \o SetToSeq({RowOf(s) : s \in {u \in Synced : Latest(t, u) # RowOf(u)}})]

Unacked(t) == Len(t.rows) - t.acked

(* A projection of an earlier epoch is dropped.  One that does not fit     *)
(* leaves no row, and closes the relay.  The sender goes on after one that *)
(* was stored, and after the one that the welcome asked for, however it    *)
(* ended.                                                                  *)
ProjectionEnqueues ==
  /\ projection.step = "read" /\ ~projection.stale
  /\ Unacked(Enqueued(table)) <= OutboxRows
  /\ table' = Enqueued(table)
  /\ relay' = SendNext(relay, table', profile)
  /\ ProjectionDone(profile)
  /\ UNCHANGED <<summary, profile, receipts, permission, cloud, commands>>

OutboxFull ==
  /\ projection.step = "read" /\ ~projection.stale
  /\ Unacked(Enqueued(table)) > OutboxRows
  /\ profile' = [profile EXCEPT !.state = "degraded", !.repair = FALSE]
  /\ relay' = IF relay.step \in {"opening", "welcomed"} THEN AfterClose(profile') ELSE relay
  /\ ProjectionDone(profile')
  /\ UNCHANGED <<summary, table, receipts, permission, cloud, commands>>

ProjectionIsStale ==
  /\ projection.step # "none" /\ projection.stale
  /\ relay' = IF projection.finish THEN SendNext(relay, table, profile) ELSE relay
  /\ ProjectionDone(profile)
  /\ UNCHANGED <<summary, profile, table, receipts, permission, cloud, commands>>

(* A source could not be read.                                             *)
ProjectionFails ==
  /\ projection.step # "none" /\ ~projection.stale
  /\ Fault("read")
  /\ profile' = [profile EXCEPT !.repair = FALSE]
  /\ relay' = IF projection.finish THEN SendNext(relay, table, profile') ELSE relay
  /\ ProjectionDone(profile')
  /\ UNCHANGED <<summary, table, receipts, permission, commands>>

(* updateSessionLabelDisclosure: what is not acknowledged is redacted when *)
(* the labels are withdrawn (redactPendingSessionLabels).                  *)
Redacted(t) ==
  [t EXCEPT !.rows = [i \in DOMAIN @ |->
     IF i <= t.acked THEN @[i] ELSE [@[i] EXCEPT !.labels = FALSE, !.forced = TRUE]]]

DisclosureChanges ==
  /\ cloud.up /\ cloud.disclosures < MaxDisclosures
  /\ cloud' = [cloud EXCEPT !.disclosures = @ + 1]
  /\ profile' = [profile EXCEPT !.labels = ~@]
  /\ table' = IF profile.labels THEN Redacted(table) ELSE table
  /\ ProjectNow(profile', FALSE)
  /\ UNCHANGED <<summary, receipts, relay, permission, commands>>

-----------------------------------------------------------------------------
(* The relay: openRelay, attachSocket, the frame router and the sender.    *)

ConnectBegins ==
  /\ relay.step = "timer"
  /\ profile' = [profile EXCEPT !.state = "connecting", !.repair = FALSE]
  /\ relay' = Relay("token", profile.control)
  /\ UNCHANGED <<summary, table, receipts, projection, permission, cloud, commands>>

(* The token: the socket is opened with the profile that was read before   *)
(* it was asked for, unless the epoch has changed.                         *)
TokenArrives ==
  /\ relay.step = "token"
  /\ relay' = [relay EXCEPT !.step = "opening"]
  /\ UNCHANGED <<summary, profile, table, receipts, projection, permission, cloud, commands>>

StaleConnectEnds ==
  /\ relay.step = "stale"
  /\ relay' = Relay("off", FALSE)
  /\ UNCHANGED <<summary, profile, table, receipts, projection, permission, cloud, commands>>

(* relay.welcome: everything before the position of Cloud is acknowledged, *)
(* and the sessions are projected before anything is sent.                 *)
Positioned(t) == [t EXCEPT !.acked = IF @ < cloud.next - 1 THEN cloud.next - 1 ELSE @]

WelcomeArrives ==
  /\ relay.step = "opening"
  /\ relay' = [relay EXCEPT !.step = "welcomed", !.next = cloud.next]
  /\ table' = Positioned(table)
  /\ profile' = [profile EXCEPT !.state = "connected", !.repair = FALSE]
  /\ ProjectNow(profile', TRUE)
  /\ UNCHANGED <<summary, receipts, permission, cloud, commands>>

(* No token, a handshake rejected for now, an error, a timeout, too much   *)
(* data, or the network: and what was on its way is lost.                  *)
RelayDrops ==
  /\ relay.step \in {"token", "opening", "welcomed"}
  /\ Fault("drop")
  /\ profile' = RelayClosed(profile)
  /\ relay' = AfterClose(profile')
  /\ UNCHANGED <<summary, table, receipts, projection, permission, commands>>

(* The token is refused with 401, or the handshake rejected for good.      *)
MachineRevoked ==
  /\ relay.step \in {"token", "opening", "welcomed"}
  /\ Fault("revoke")
  /\ profile' = [profile EXCEPT !.state = "revoked", !.repair = FALSE]
  /\ relay' = AfterClose(profile')
  /\ UNCHANGED <<summary, table, receipts, projection, permission, commands>>

(* Cloud takes the event that comes next in the stream, or refuses it; the *)
(* acknowledgement may still get lost.                                     *)
CloudTakes ==
  /\ relay.wire.kind = "event"
  /\ LET row == relay.wire.row
     IN cloud' = [cloud EXCEPT !.view[row.session] = <<row.version, row.labels>>, !.next = @ + 1]
  /\ relay' = [relay EXCEPT !.wire = [kind |-> "ack"]]
  /\ UNCHANGED <<summary, profile, table, receipts, projection, permission, commands>>

CloudRefuses ==
  /\ relay.wire.kind = "event"
  /\ Fault("refuse")
  /\ relay' = [relay EXCEPT !.wire = [kind |-> "refusal"]]
  /\ UNCHANGED <<summary, profile, table, receipts, projection, permission, commands>>

(* handleAck.  A refused event stays at the head, whether it may be tried  *)
(* again or not, and the error of its row overwrites the earlier one.      *)
AckArrives ==
  /\ relay.wire.kind = "ack"
  /\ table' = [table EXCEPT !.acked = relay.inFlight]
  /\ relay' = SendNext([relay EXCEPT !.inFlight = 0, !.wire = NoMessage, !.next = relay.inFlight + 1],
                       table', profile)
  /\ UNCHANGED <<summary, profile, receipts, projection, permission, cloud, commands>>

RefusalArrives ==
  /\ relay.wire.kind = "refusal"
  /\ table' = [table EXCEPT !.rows[relay.inFlight].forced = FALSE]
  /\ profile' = [profile EXCEPT !.state = "degraded", !.repair = FALSE]
  /\ relay' = AfterClose(profile')
  /\ UNCHANGED <<summary, receipts, projection, permission, cloud, commands>>

-----------------------------------------------------------------------------
(* Commands: handleControlFrame, from the last frame of a request on.      *)

CopySent(c) ==
  /\ relay.step = "welcomed" /\ commands.copies[c] < MaxCopies

(* A command that may not be sent closes the relay; one that arrives while *)
(* the profile is not connected is ignored; one whose receipt is pending   *)
(* is answered as unknown and one that is completed with its outcome.      *)
RemoteRefused(c) ==
  /\ CopySent(c)
  /\ commands' = [commands EXCEPT !.copies[c] = @ + 1]
  /\ \/ /\ ~relay.control
        /\ profile' = RelayClosed(profile)
        /\ relay' = AfterClose(profile')
     \/ /\ relay.control
        /\ profile.state # "connected" \/ receipts[c] # "none"
        /\ UNCHANGED <<profile, relay>>
  /\ UNCHANGED <<summary, table, receipts, projection, permission, cloud>>

RemoteStarts(c) ==
  /\ CopySent(c)
  /\ relay.control /\ profile.state = "connected" /\ receipts[c] = "none"
  /\ receipts' = [receipts EXCEPT ![c] = "pending"]
  /\ commands' = [commands EXCEPT !.copies[c] = @ + 1, !.running[c] = TRUE, !.started[c] = @ + 1]
  /\ UNCHANGED <<summary, profile, table, relay, projection, permission, cloud>>

(* Only a definitive outcome completes the receipt; a timeout or an error  *)
(* of the daemon leaves it pending, as a stop does.                        *)
RemoteEnds(c, definitive) ==
  /\ commands.running[c]
  /\ commands' = [commands EXCEPT !.running[c] = FALSE]
  /\ receipts' = IF definitive THEN [receipts EXCEPT ![c] = "completed"] ELSE receipts
  /\ UNCHANGED <<summary, profile, table, relay, projection, permission, cloud>>

-----------------------------------------------------------------------------
(* The permissions: apply, one at a time.  What is revoked is revoked and  *)
(* the relay dropped before Cloud is told, what is granted is stored after *)
(* Cloud has agreed; the same permissions again repair a failed change.    *)
Staled(p) == IF p.step = "none" THEN p ELSE [p EXCEPT !.stale = TRUE]

PermissionAsked(wanted) ==
  /\ cloud.up /\ permission.step \in {"none", "failed"} /\ cloud.permissions < MaxPermissions
  /\ wanted # profile.control \/ profile.repair
  /\ cloud' = [cloud EXCEPT !.permissions = @ + 1]
  /\ LET revoking == profile.control /\ ~wanted
     IN /\ permission' = [step |-> "asking", wanted |-> wanted, revoking |-> revoking]
        /\ profile' = IF revoking THEN [profile EXCEPT !.control = FALSE, !.repair = FALSE,
                                                       !.state = "connecting"]
                      ELSE profile
        /\ relay' = IF revoking THEN Disconnected(relay) ELSE relay
        /\ projection' = IF revoking THEN Staled(projection) ELSE projection
  /\ UNCHANGED <<summary, table, receipts, commands>>

PermissionTaken ==
  /\ permission.step = "asking"
  /\ permission' = [permission EXCEPT !.step = "taken"]
  /\ profile' = [profile EXCEPT !.control = permission.wanted, !.state = "connecting",
                                !.repair = FALSE]
  /\ relay' = IF permission.revoking THEN relay ELSE Disconnected(relay)
  /\ projection' = IF permission.revoking THEN projection ELSE Staled(projection)
  /\ UNCHANGED <<summary, table, receipts, cloud, commands>>

(* A failed revocation leaves the relay disconnected; it can be repaired   *)
(* if the error was an answer of Cloud.                                    *)
PermissionDenied(answered) ==
  /\ permission.step = "asking"
  /\ Fault("deny")
  /\ permission' = IF permission.revoking THEN [NoPermission EXCEPT !.step = "failed"]
                   ELSE NoPermission
  /\ profile' = IF permission.revoking
                THEN [profile EXCEPT !.state = "degraded", !.repair = answered] ELSE profile
  /\ UNCHANGED <<summary, table, receipts, relay, projection, commands>>

(* The relay is connected again once the stale attempt has ended.          *)
PermissionApplied ==
  /\ permission.step = "taken" /\ relay.step # "stale"
  /\ permission' = NoPermission
  /\ relay' = Relay("timer", FALSE)
  /\ UNCHANGED <<summary, profile, table, receipts, projection, cloud, commands>>

-----------------------------------------------------------------------------
(* close() or a crash, which differ in nothing that is stored: what runs   *)
(* when the connector closes completes no receipt and enqueues no summary. *)
ConnectorStops ==
  /\ cloud.up /\ "stop" \in CloudFaults /\ cloud.faults < MaxCloudFaults
  /\ cloud' = [cloud EXCEPT !.up = FALSE, !.faults = @ + 1]
  /\ relay' = Relay("off", FALSE)
  /\ projection' = NoProjection
  /\ permission' = NoPermission
  /\ commands' = [commands EXCEPT !.running = [c \in RemoteCommands |-> FALSE]]
  /\ UNCHANGED <<summary, profile, table, receipts>>

ConnectorStarts ==
  /\ ~cloud.up
  /\ cloud' = [cloud EXCEPT !.up = TRUE]
  /\ relay' = Relay("timer", FALSE)
  /\ UNCHANGED <<summary, profile, table, receipts, projection, permission, commands>>

-----------------------------------------------------------------------------
ProjectionSteps ==
  ProjectionDue \/ ProjectionReads \/ ProjectionEnqueues \/ OutboxFull \/ ProjectionIsStale

RelaySteps ==
  \/ ConnectBegins \/ TokenArrives \/ StaleConnectEnds \/ WelcomeArrives \/ CloudTakes
  \/ AckArrives \/ RefusalArrives \/ PermissionTaken \/ PermissionApplied \/ ConnectorStarts

CloudNext ==
  \/ ProjectionSteps \/ RelaySteps
  \/ \E s \in Synced : SummaryChanges(s)
  \/ ProjectionFails \/ DisclosureChanges
  \/ RelayDrops \/ MachineRevoked \/ CloudRefuses \/ ConnectorStops
  \/ \E c \in RemoteCommands :
       \/ RemoteRefused(c) \/ RemoteStarts(c)
       \/ \E definitive \in BOOLEAN : RemoteEnds(c, definitive)
  \/ \E on \in BOOLEAN : PermissionAsked(on) \/ PermissionDenied(on)

(* Timers, requests with a deadline, a welcome with a timeout, a Cloud     *)
(* that answers, and a host that starts the daemon again.                  *)
CloudFairness ==
  /\ WF_CloudVars(ProjectionSteps)
  /\ WF_CloudVars(RelaySteps)

CloudSpec == CloudInit /\ [][CloudNext]_CloudVars /\ CloudFairness

-----------------------------------------------------------------------------
CloudTypeOK ==
  /\ summary \in [Synced -> 1 .. MaxUpdates + 1]
  /\ profile \in [state : {"connecting", "connected", "degraded", "revoked"},
                  control : BOOLEAN, labels : BOOLEAN, repair : BOOLEAN]
  /\ table.acked <= Len(table.rows) /\ cloud.next <= Len(table.rows) + 1
  /\ table.acked < cloud.next
  /\ receipts \in [RemoteCommands -> {"none", "pending", "completed"}]
  /\ relay.step \in {"off", "timer", "token", "stale", "opening", "welcomed"}
  /\ relay.inFlight > 0 <=> relay.wire # NoMessage
  /\ relay.inFlight \in {0, cloud.next, cloud.next - 1}

(* A command runs at most once, whatever is sent twice, lost, left unknown *)
(* by a timeout or interrupted by a restart, and it starts only while the  *)
(* user allows it: no socket opened with earlier permissions outlives them *)
(* (docs/architecture.md:126, docs/daemon-api.md:255).                     *)
RunsOnceWhileAllowed ==
  [][\A c \in RemoteCommands : commands'.started[c] # commands.started[c] =>
       commands.started[c] = 0 /\ profile.control]_CloudVars

(* Cloud ends up with every session as it is, and with its labels exactly  *)
(* if they may be disclosed, however the relay, the acknowledgements, the  *)
(* refusals, the projections and the switches of the user interleave.      *)
(* Excepted are a relay that is not connected again, because Cloud has     *)
(* revoked the machine or the user's revocation failed, and an outbox that *)
(* has no room for another projection: the next one closes every relay     *)
(* before anything is sent.                                                *)
InSync == \A s \in Synced : cloud.view[s] = <<summary[s], profile.labels>>

GivenUp == profile.state = "revoked" \/ permission.step = "failed"

Crowded == Unacked(table) + Cardinality(Synced) > OutboxRows

CloudCatchesUp == []<>(InSync \/ GivenUp \/ Crowded)
=============================================================================
