-------------------------- MODULE NetworkExtension --------------------------
(***************************************************************************)
(* What TunnelKit uses of the NetworkExtension framework, which is         *)
(* external: the preferences with the managers (VPN configurations) of an  *)
(* application, and the one tunnel that runs.  The system is a record, and *)
(* the calls of the framework are operators on it.                         *)
(***************************************************************************)
EXTENDS Naturals, FiniteSets

NoManager == 0

NewSystem == [managers |-> <<>>,          \* by handle
              handle |-> 1,               \* of the next new manager
              status |-> "disconnected",  \* disconnected, connecting, connected, disconnecting
              active |-> NoManager,       \* the manager whose tunnel this is
              queued |-> NoManager,       \* the one to be started when it is down
              launched |-> FALSE]         \* the extension runs for it

Exists(s, h)  == h \in DOMAIN s.managers
Enabled(s, h) == Exists(s, h) /\ s.managers[h].enabled

\* connection.status of a manager.
Status(s, h) == IF s.active = h THEN s.status ELSE "disconnected"

\* stopVPNTunnel.
StopVPNTunnel(s, h) ==
    [s EXCEPT !.status = IF s.active = h /\ @ # "disconnected" THEN "disconnecting" ELSE @,
              !.queued = IF @ = h THEN NoManager ELSE @]

\* What startVPNTunnel of an enabled manager may lead to: while the former tunnel
\* goes down, the start is remembered or lost.
StartVPNTunnel(s, h) ==
    IF ~Enabled(s, h) THEN {s}
    ELSE IF s.status = "disconnected" THEN {[s EXCEPT !.status = "connecting", !.active = h]}
    ELSE IF s.status = "disconnecting" THEN {s, [s EXCEPT !.queued = h]}
    ELSE {s}

\* A tunnel whose manager is gone or disabled is stopped.
StopUnlessEnabled(s) ==
    IF s.active = NoManager \/ Enabled(s, s.active) THEN s ELSE StopVPNTunnel(s, s.active)

\* saveToPreferences stores m under handle h; one manager is enabled at a time.
Disabled(m) == [m EXCEPT !.enabled = FALSE, !.version = @ + 1]

SaveToPreferences(s, h, m) ==
    LET Stored(k) == IF k = h THEN m
                     ELSE IF m.enabled /\ s.managers[k].enabled THEN Disabled(s.managers[k])
                     ELSE s.managers[k]
    IN  StopUnlessEnabled([s EXCEPT !.managers = [k \in DOMAIN @ \cup {h} |-> Stored(k)]])

\* removeFromPreferences.
RemoveFromPreferences(s, h) ==
    StopUnlessEnabled([s EXCEPT !.managers = [k \in DOMAIN @ \ {h} |-> @[k]]])

\* The tunnel is down: nothing runs, or the one that was remembered starts.
Disconnected(s) ==
    LET down == [s EXCEPT !.status = "disconnected", !.active = NoManager,
                          !.queued = NoManager, !.launched = FALSE]
    IN  IF s.queued # NoManager /\ Enabled(s, s.queued)
        THEN [down EXCEPT !.status = "connecting", !.active = s.queued]
        ELSE down
=============================================================================
