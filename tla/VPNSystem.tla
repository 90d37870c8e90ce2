----------------------------- MODULE VPNSystem -----------------------------
(***************************************************************************)
(* The application, the operating system and the extension together: the   *)
(* application changes the preferences and asks for a start or a stop, and *)
(* the system runs the tunnel provider accordingly.                        *)
(***************************************************************************)
EXTENDS NetworkExtensionVPN, WireGuardTunnelProvider

vars == <<app, extension>>

\* External: the system between the two.

Launch ==
    /\ os.status = "connecting" /\ ~os.launched
    /\ os' = [os EXCEPT !.launched = TRUE]
    /\ extension' = StartTunnel(NewProvider(extension))
    /\ UNCHANGED <<calls, off, overlap>>

\* The handler of startTunnel was called.
StartAnswered ==
    /\ os.status = "connecting" /\ os.launched
    /\ \/ extension.start = "ok" /\ os' = [os EXCEPT !.status = "connected"]
       \/ extension.start = "failed" /\ os' = Disconnected(os)
    /\ UNCHANGED <<calls, off, overlap, extension>>

StopExtension ==
    /\ os.status = "disconnecting" /\ os.launched
    /\ extension.stop = "none"
    /\ extension' = StopTunnel(extension)
    /\ UNCHANGED app

\* The handler of stopTunnel was called, or there was nothing to stop.
Down ==
    /\ os.status = "disconnecting"
    /\ os.launched => extension.stop = "called"
    /\ os' = Disconnected(os)
    /\ UNCHANGED <<calls, off, overlap, extension>>

Release ==
    /\ ~os.launched /\ extension.alive
    /\ extension' = Released(extension)
    /\ UNCHANGED app

OnDemand ==
    /\ os.status = "disconnected"
    /\ \E h \in DOMAIN os.managers :
          /\ os.managers[h].enabled /\ os.managers[h].onDemand
          /\ os' = [os EXCEPT !.status = "connecting", !.active = h]
    /\ UNCHANGED <<calls, off, overlap, extension>>

-----------------------------------------------------------------------------
\* Nothing is installed, or a manager of some version of the application is.
Init ==
    /\ \/ os = NewSystem
       \/ \E id \in Ids, onDemand \in BOOLEAN :
             os = [NewSystem EXCEPT !.handle = 2,
                       !.managers = [h \in {1} |-> [id |-> id, enabled |-> TRUE,
                                                    onDemand |-> onDemand, version |-> 1]]]
    /\ calls = [c \in Calls |-> NewCall]
    /\ off = FALSE /\ overlap = FALSE
    /\ extension = NoProvider

Provider == (Refresh \/ RunBlock \/ Adapter) /\ UNCHANGED app

Next == \/ Application /\ UNCHANGED extension
        \/ Launch \/ StartAnswered \/ StopExtension \/ Down \/ Release \/ OnDemand
        \/ Provider

Spec == Init /\ [][Next]_vars

\* The queues of the provider and of the adapter run what they are handed, and the
\* scheduled refreshes come.
FairSpec == /\ Spec
            /\ WF_vars(Refresh /\ UNCHANGED app)
            /\ WF_vars(RunBlock /\ UNCHANGED app)
            /\ WF_vars(Adapter /\ UNCHANGED app)

-----------------------------------------------------------------------------
\* After a disconnection or an uninstallation that met no failure no tunnel comes
\* up until a manager is enabled again: not by a reconnection that slept meanwhile,
\* nor on demand (disconnect disables the managers it stops).
OffStaysOff == off => os.status \in {"disconnected", "disconnecting"}

\* Installations that do not overlap leave one manager for an identifier
\* (installReturningManager uses the one that is there).
NoTwins == overlap \/ \A h, k \in DOMAIN os.managers :
                          os.managers[h].id = os.managers[k].id => h = k

\* A count that was cleared stays away while the tunnel is stopped: no fetch that
\* was under way brings it back (stopTunnel marks the tunnel as stopped only when
\* the adapter, which answers in order, has stopped).
NoGhostCount ==
    [][~extension.dataCount /\ ~extension.tunnelIsStarted => ~extension'.dataCount]_vars

\* The count of a tunnel that was up does not stay for ever once it is down: the
\* provider clears it, unless the system releases the provider before.
OldCount == extension.start = "ok" /\ ~os.launched /\ extension.alive /\ extension.dataCount
CountCleared == OldCount ~> ~OldCount
=============================================================================
