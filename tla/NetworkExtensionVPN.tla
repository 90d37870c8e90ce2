------------------------- MODULE NetworkExtensionVPN -------------------------
(***************************************************************************)
(* NetworkExtensionVPN.swift: what the application asks of its VPN.  Every *)
(* method is a task of its own; between two of its awaits a task runs      *)
(* without interruption, and while it awaits the framework the others run. *)
(***************************************************************************)
EXTENDS NetworkExtension

CONSTANTS Calls, \* calls of the application, each of one method
          Ids    \* tunnelBundleIdentifier

VARIABLES os,
          calls,   \* by call
          off,     \* history: a disconnection or an uninstallation met no failure, and
                   \* nothing was enabled since it looked the managers up
          overlap  \* history: an installation began before another one had saved

app == <<os, calls, off, overlap>>

Installing  == {"install", "reconnectInstalling"}
Methods     == Installing \cup {"reconnect", "disconnect", "uninstall"}
NoCopy  == [h |-> NoManager, id |-> "none", version |-> 0]
NewCall == [method |-> "none", at |-> "new",
            target |-> NoCopy, \* the manager it is at
            rest |-> {},       \* those it goes on to; the framework promises no order
            failed |-> FALSE, outrun |-> FALSE]

-----------------------------------------------------------------------------
\* Managers as a task has loaded them: a save of one that has changed since fails.

Copy(s, h)     == [h |-> h, id |-> s.managers[h].id, version |-> s.managers[h].version]
Fresh(s, copy) == IF copy.version = 0 THEN ~Exists(s, copy.h)
                  ELSE Exists(s, copy.h) /\ s.managers[copy.h].version = copy.version

LookupAll(s) == {Copy(s, h) : h \in DOMAIN s.managers}

Saved(copy, enabled, onDemand) ==
    [id |-> copy.id, enabled |-> enabled, onDemand |-> onDemand, version |-> copy.version + 1]

\* Mutant: installReturningManager makes a new manager every time.
TargetManagerNew(managers, id) == {[h |-> os.handle, id |-> id, version |-> 0]}

\* What may be the targetManager of installReturningManager.
TargetManager(managers, id) ==
    LET known == {m \in managers : m.id = id}
    IN  IF known # {} THEN known ELSE {[h |-> os.handle, id |-> id, version |-> 0]}

-----------------------------------------------------------------------------
\* A step of call c leads to the system s and the call x.

Done(x) == [x EXCEPT !.at = "done", !.rest = {}, !.target = NoCopy]

Goes(c, s, x) ==
    /\ os' = s
    /\ calls' = [calls EXCEPT ![c] = x]
    /\ off' = \/ off
              \/ /\ x.at = "done" /\ x.method \in {"disconnect", "uninstall"}
                 /\ ~x.failed /\ ~x.outrun

\* Every call that is under way is outrun by a save that enables a manager.
GoesEnabling(c, s, x) ==
    /\ os' = s
    /\ calls' = [k \in Calls |-> [(IF k = c THEN x ELSE calls[k]) EXCEPT !.outrun = TRUE]]
    /\ off' = FALSE

\* Stop first, if need be, and sleep; then start.
Reconnect(c, s, x) ==
    LET h == x.target.h
    IN  IF Status(s, h) # "disconnected" THEN Goes(c, StopVPNTunnel(s, h), [x EXCEPT !.at = "sleep"])
        ELSE \E started \in StartVPNTunnel(s, h) : Goes(c, started, Done(x))

\* What follows once the other managers are gone.
Installed(c, s, x) ==
    IF x.method = "install" THEN Goes(c, s, Done(x)) ELSE Reconnect(c, s, x)

\* The next manager of a disconnection or an uninstallation: it is stopped, then
\* saved or removed.
NextManager(c, s, x) ==
    IF x.rest = {} THEN Goes(c, s, Done(x))
    ELSE \E m \in x.rest :
            Goes(c, StopVPNTunnel(s, m.h),
                 [x EXCEPT !.at = IF x.method = "disconnect" THEN "disable" ELSE "remove",
                           !.target = m, !.rest = @ \ {m}])

-----------------------------------------------------------------------------
\* A method is called, and has looked the managers up.
Call(c, method, id) ==
    /\ calls[c].at = "new"
    /\ LET managers == LookupAll(os)
           x == [calls[c] EXCEPT !.method = method, !.outrun = FALSE]
       IN  \/ /\ method \in Installing
              /\ \E target \in TargetManager(managers, id) :
                    Goes(c, [os EXCEPT !.handle = IF target.version = 0 THEN @ + 1 ELSE @],
                         [x EXCEPT !.at = "save", !.target = target,
                                   !.rest = {m \in managers : m.id # id}])
           \/ /\ method = "reconnect"
              /\ \/ managers = {} /\ Goes(c, os, Done(x))
                 \/ \E m \in managers : Reconnect(c, os, [x EXCEPT !.target = m])
           \/ /\ method \in {"disconnect", "uninstall"}
              /\ NextManager(c, os, [x EXCEPT !.rest = managers])
    /\ overlap' = (overlap \/ /\ method \in Installing
                              /\ \E k \in Calls : calls[k].at = "save")

\* install(_:title:protocolConfiguration:onDemandRules:): the save, which enables
\* the manager, and may be refused.
SaveManager(c, onDemand) ==
    /\ calls[c].at = "save"
    /\ LET x == calls[c]
       IN  \/ /\ Fresh(os, x.target)
              /\ GoesEnabling(c, SaveToPreferences(os, x.target.h, Saved(x.target, TRUE, onDemand)),
                              [x EXCEPT !.at = "load"])
           \/ Goes(c, os, Done(x))
    /\ UNCHANGED overlap

\* Then the manager is loaded again, if it is still there, and the managers of
\* other extensions follow (retainManagers).
Load(c) ==
    /\ calls[c].at = "load"
    /\ LET x == calls[c]
       IN  IF ~Exists(os, x.target.h) THEN Goes(c, os, Done(x))
           ELSE IF x.rest = {} THEN Installed(c, os, x)
           ELSE Goes(c, os, [x EXCEPT !.at = "retain"])
    /\ UNCHANGED overlap

\* One of them is removed, or not.
Retain(c) ==
    /\ calls[c].at = "retain"
    /\ \E o \in calls[c].rest : \E s \in {os, RemoveFromPreferences(os, o.h)} :
          LET x == [calls[c] EXCEPT !.rest = @ \ {o}]
          IN  IF x.rest = {} THEN Installed(c, s, x) ELSE Goes(c, s, x)
    /\ UNCHANGED overlap

\* The sleep of a reconnection is over.  The start throws when the manager is gone
\* or disabled.
Awake(c) ==
    /\ calls[c].at = "sleep"
    /\ \E started \in StartVPNTunnel(os, calls[c].target.h) : Goes(c, started, Done(calls[c]))
    /\ UNCHANGED overlap

\* Mutant: the manager that is saved is still enabled.
DisableOnDemandOnly(c) ==
    /\ calls[c].at = "disable"
    /\ LET x == calls[c]
           m == x.target
       IN  \/ /\ Fresh(os, m)
              /\ NextManager(c, SaveToPreferences(os, m.h, Saved(m, Enabled(os, m.h), FALSE)), x)
           \/ NextManager(c, os, [x EXCEPT !.failed = TRUE])
    /\ UNCHANGED overlap

\* disconnect saves a manager that is disabled; nobody hears of a failure.
DisableManager(c) ==
    /\ calls[c].at = "disable"
    /\ LET x == calls[c]
           m == x.target
       IN  \/ /\ Fresh(os, m)
              /\ NextManager(c, SaveToPreferences(os, m.h, Saved(m, FALSE, FALSE)), x)
           \/ NextManager(c, os, [x EXCEPT !.failed = TRUE])
    /\ UNCHANGED overlap

\* uninstall removes a manager.
RemoveManager(c) ==
    /\ calls[c].at = "remove"
    /\ LET x == calls[c]
       IN  \/ NextManager(c, RemoveFromPreferences(os, x.target.h), x)
           \/ NextManager(c, os, [x EXCEPT !.failed = TRUE])
    /\ UNCHANGED overlap

Application ==
    \E c \in Calls : \/ \E method \in Methods, id \in Ids : Call(c, method, id)
                     \/ \E onDemand \in BOOLEAN : SaveManager(c, onDemand)
                     \/ Load(c) \/ Retain(c) \/ Awake(c) \/ DisableManager(c) \/ RemoveManager(c)
=============================================================================
