----------------------- MODULE WireGuardTunnelProvider -----------------------
(***************************************************************************)
(* WireGuardTunnelProvider.swift: the extension that runs a WireGuard      *)
(* tunnel, between the operating system, the serial tunnelQueue of the     *)
(* provider and the adapter of the WireGuard library, which is external    *)
(* and handles its requests one after the other on a queue of its own.     *)
(*                                                                         *)
(* The data count and the last error live in preferences that the          *)
(* application reads; they outlive the provider.                           *)
(***************************************************************************)
EXTENDS Naturals, Sequences

CONSTANT MaxRequests \* bound: requests that wait for the adapter

ASSUME MaxRequestsAssumption == MaxRequests \in Nat \ {0}

VARIABLE extension

\* The system makes a provider for every start; preferences is the former one.
NewProvider(preferences) ==
    [alive |-> TRUE,
     start |-> "none",     \* startTunnel's handler: none, pending, ok, failed
     stop |-> "none",      \* stopTunnel's handler: none, pending, called
     requests |-> <<>>,    \* of the adapter: start, stop, fetch
     up |-> FALSE,         \* the adapter runs
     blocks |-> <<>>,      \* of tunnelQueue: started, stopped
     refreshes |-> 0,      \* calls of refreshDataCount that are scheduled
     tunnelIsStarted |-> FALSE,
     dataCount |-> preferences.dataCount, lastError |-> preferences.lastError]

NoProvider == [NewProvider([dataCount |-> FALSE, lastError |-> FALSE]) EXCEPT !.alive = FALSE]

\* The system lets go of the provider: what is scheduled finds no self any more.
Released(x) == [NewProvider(x) EXCEPT !.alive = FALSE]

Request(x, request) == [x EXCEPT !.requests = Append(@, request)]
Async(x, block)     == [x EXCEPT !.blocks = Append(@, block)]

-----------------------------------------------------------------------------
\* Calls from the operating system.

StartTunnel(x) == Request([x EXCEPT !.start = "pending"], "start")

\* Mutant: the tunnel counts as stopped before the adapter is asked to stop.
StopTunnelFlagFirst(x) == Request([x EXCEPT !.stop = "pending", !.tunnelIsStarted = FALSE], "stop")

StopTunnel(x) == Request([x EXCEPT !.stop = "pending"], "stop")

-----------------------------------------------------------------------------
\* The tunnel queue.

\* Mutant: the refresh is scheduled only as long as the tunnel is started.
RefreshWhileStarted(x) ==
    IF x.tunnelIsStarted THEN Request([x EXCEPT !.refreshes = @ + 1], "fetch") ELSE x

\* refreshDataCount schedules itself first, then clears the count or fetches it.
RefreshDataCount(x) ==
    LET again == [x EXCEPT !.refreshes = @ + 1]
    IN  IF x.tunnelIsStarted THEN Request(again, "fetch") ELSE [again EXCEPT !.dataCount = FALSE]

Refresh ==
    /\ extension.refreshes > 0
    /\ extension' = RefreshDataCount([extension EXCEPT !.refreshes = @ - 1])
    /\ Len(extension'.requests) <= MaxRequests

\* The blocks that the completions of start and stop hand to the queue.
RunBlock ==
    /\ extension.blocks # <<>>
    /\ LET x == [extension EXCEPT !.blocks = Tail(@)]
       IN  extension' = IF Head(extension.blocks) = "started"
                        THEN RefreshDataCount([x EXCEPT !.tunnelIsStarted = TRUE])
                        ELSE [x EXCEPT !.lastError = FALSE, !.tunnelIsStarted = FALSE,
                                       !.stop = "called"]

-----------------------------------------------------------------------------
\* The queue of the adapter, with the completion of what was requested.

Taken(x) == [x EXCEPT !.requests = Tail(@)]
Requested(request) == extension.requests # <<>> /\ Head(extension.requests) = request

AdapterStarts ==
    /\ Requested("start") /\ ~extension.up
    /\ \/ extension' = Async([Taken(extension) EXCEPT !.up = TRUE, !.lastError = FALSE, !.start = "ok"],
                             "started")
       \/ extension' = [Taken(extension) EXCEPT !.lastError = TRUE, !.start = "failed"]

\* With an error (the adapter was not running) or without, the same is done.
AdapterStops ==
    /\ Requested("stop")
    /\ extension' = Async([Taken(extension) EXCEPT !.up = FALSE], "stopped")

\* getRuntimeConfiguration knows nothing while the adapter is down; what it says
\* may not parse.
AdapterFetches ==
    /\ Requested("fetch")
    /\ \/ extension.up /\ extension' = [Taken(extension) EXCEPT !.dataCount = TRUE]
       \/ extension' = Taken(extension)

Adapter == AdapterStarts \/ AdapterStops \/ AdapterFetches
=============================================================================
