-------------------------- MODULE VPNSystemProofs --------------------------
(***************************************************************************)
(* The application, the system and the WireGuard provider together, for    *)
(* any number of calls at the same time and any identifiers: what was      *)
(* turned off stays off, an identifier has one manager, and an old data    *)
(* count does not come back.                                               *)
(***************************************************************************)
EXTENDS VPNSystem, SequenceTheorems, TLAPS

-----------------------------------------------------------------------------
(* The system.                                                             *)

Stati == {"disconnected", "connecting", "connected", "disconnecting"}
Managers == [id : Ids, enabled : BOOLEAN, onDemand : BOOLEAN, version : Nat \ {0}]

\* The type of the system: handles are given once, in order.
SysType(s) ==
    /\ s = [managers |-> s.managers, handle |-> s.handle, status |-> s.status,
            active |-> s.active, queued |-> s.queued, launched |-> s.launched]
    /\ s.handle \in Nat \ {0}
    /\ s.status \in Stati
    /\ s.active \in Nat /\ s.queued \in Nat /\ s.launched \in BOOLEAN
    /\ DOMAIN s.managers \subseteq 1 .. s.handle - 1
    /\ s.managers \in [DOMAIN s.managers -> Managers]

\* A tunnel that comes up or is up belongs to a manager that is enabled.
Running(s) == s.status \in {"connecting", "connected"} => Enabled(s, s.active)

Sys(s) == SysType(s) /\ Running(s)

\* No manager.
LEMMA NoManagerExists ==
  ASSUME NEW s, SysType(s)
  PROVE  ~ Exists(s, NoManager)
  BY DEF SysType, Exists, NoManager

\* stopVPNTunnel takes no tunnel up, and takes the one of its manager down.
LEMMA StopSys ==
  ASSUME NEW s, SysType(s), NEW h
  PROVE  LET t == StopVPNTunnel(s, h)
         IN  /\ SysType(t) /\ t.managers = s.managers /\ t.handle = s.handle
             /\ t.status \in {s.status, "disconnecting"} /\ t.active = s.active
             /\ s.active = h => t.status \notin {"connecting", "connected"}
             /\ Running(s) => Running(t)
<1> DEFINE status == IF s.active = h /\ s.status # "disconnected" THEN "disconnecting" ELSE s.status
           queued == IF s.queued = h THEN NoManager ELSE s.queued
           t == StopVPNTunnel(s, h)
<1>1. t = [managers |-> s.managers, handle |-> s.handle, status |-> status,
           active |-> s.active, queued |-> queued, launched |-> s.launched]
  <2>1. t = [s EXCEPT !.status = status, !.queued = queued]
    BY DEF StopVPNTunnel
  <2> HIDE DEF t, status, queued
  <2> QED BY <2>1 DEF SysType
<1>2. status \in Stati /\ queued \in Nat
  BY DEF SysType, Stati, NoManager
<1> HIDE DEF t, queued
<1>3. /\ t.managers = s.managers /\ t.handle = s.handle /\ t.status = status
      /\ t.active = s.active /\ t.queued = queued /\ t.launched = s.launched
      /\ t = [managers |-> t.managers, handle |-> t.handle, status |-> t.status,
              active |-> t.active, queued |-> t.queued, launched |-> t.launched]
  BY <1>1
<1>4. SysType(t)
  BY <1>2, <1>3 DEF SysType
<1>5. Running(s) => Running(t)
  BY <1>3 DEF Running, Enabled, Exists
<1> QED
  BY <1>3, <1>4, <1>5 DEF t, SysType, Stati

\* startVPNTunnel takes a tunnel up for an enabled manager only.
LEMMA StartSys ==
  ASSUME NEW s, Sys(s), NEW h \in Nat, NEW t \in StartVPNTunnel(s, h)
  PROVE  Sys(t) /\ t.managers = s.managers /\ t.handle = s.handle
<1>1. CASE t = s
  BY <1>1
<1>2. CASE Enabled(s, h) /\ t = [s EXCEPT !.status = "connecting", !.active = h]
  BY <1>2 DEF Sys, SysType, Running, Enabled, Exists, Stati
<1>3. CASE s.status = "disconnecting" /\ t = [s EXCEPT !.queued = h]
  BY <1>3 DEF Sys, SysType, Running, Enabled, Exists, Stati
<1> QED
  BY <1>1, <1>2, <1>3 DEF StartVPNTunnel

\* Whatever became of the managers, a tunnel that goes on has one that is enabled.
LEMMA StopUnlessEnabledSys ==
  ASSUME NEW s, SysType(s),
         s.status \in {"connecting", "connected"} => s.active # NoManager
  PROVE  LET t == StopUnlessEnabled(s)
         IN  Sys(t) /\ t.managers = s.managers /\ t.handle = s.handle
<1>1. CASE s.active = NoManager \/ Enabled(s, s.active)
  BY <1>1 DEF StopUnlessEnabled, Sys, Running
<1>2. CASE ~ (s.active = NoManager \/ Enabled(s, s.active))
  <2> DEFINE t == StopVPNTunnel(s, s.active)
  <2>1. StopUnlessEnabled(s) = t
    BY <1>2 DEF StopUnlessEnabled
  <2>2. SysType(t) /\ t.managers = s.managers /\ t.handle = s.handle
        /\ t.status \notin {"connecting", "connected"}
    BY StopSys
  <2> HIDE DEF t
  <2> QED BY <2>1, <2>2 DEF Sys, Running
<1> QED
  BY <1>1, <1>2

\* A manager that makes way for another one.
LEMMA DisabledManager ==
  ASSUME NEW m \in Managers
  PROVE  /\ Disabled(m) \in Managers
         /\ Disabled(m).id = m.id /\ ~ Disabled(m).enabled
<1>1. /\ m = [id |-> m.id, enabled |-> m.enabled, onDemand |-> m.onDemand,
              version |-> m.version]
      /\ m.id \in Ids /\ m.onDemand \in BOOLEAN /\ m.version \in Nat \ {0}
  BY DEF Managers
<1>2. Disabled(m) = [id |-> m.id, enabled |-> FALSE, onDemand |-> m.onDemand,
                     version |-> m.version + 1]
  <2>1. Disabled(m) = [m EXCEPT !.enabled = FALSE, !.version = m.version + 1]
    BY DEF Disabled
  <2> QED BY <1>1, <2>1
<1>3. m.version + 1 \in Nat \ {0}
  BY <1>1
<1> QED
  BY <1>1, <1>2, <1>3 DEF Managers

\* saveToPreferences stores its manager and enables no other one.
LEMMA SaveSys ==
  ASSUME NEW s, Sys(s), NEW h \in 1 .. s.handle - 1, NEW m \in Managers
  PROVE  LET t == SaveToPreferences(s, h, m)
         IN  /\ Sys(t) /\ t.handle = s.handle
             /\ DOMAIN t.managers = DOMAIN s.managers \cup {h}
             /\ t.managers[h] = m
             /\ \A k \in DOMAIN s.managers \ {h} :
                  /\ t.managers[k].id = s.managers[k].id
                  /\ t.managers[k].enabled => s.managers[k].enabled
<1> DEFINE After(k) == IF k = h THEN m
                       ELSE IF m.enabled /\ s.managers[k].enabled THEN Disabled(s.managers[k])
                       ELSE s.managers[k]
           managers == [k \in DOMAIN s.managers \cup {h} |-> After(k)]
           u == [s EXCEPT !.managers = managers]
<1>1. SaveToPreferences(s, h, m) = StopUnlessEnabled(u)
  BY DEF SaveToPreferences
<1>2. \A k \in DOMAIN s.managers \cup {h} : After(k) \in Managers
  <2> TAKE k \in DOMAIN s.managers \cup {h}
  <2>1. CASE k = h
    BY <2>1
  <2>2. CASE k # h
    <3>1. s.managers[k] \in Managers
      BY <2>2 DEF Sys, SysType
    <3> QED BY <2>2, <3>1, DisabledManager
  <2> QED BY <2>1, <2>2
<1>3. \A k \in DOMAIN s.managers \ {h} :
         /\ After(k).id = s.managers[k].id
         /\ After(k).enabled => s.managers[k].enabled
  <2>1. \A k \in DOMAIN s.managers : s.managers[k] \in Managers
    BY DEF Sys, SysType
  <2> QED BY <2>1, DisabledManager
<1> HIDE DEF After
<1>4. /\ u.managers = managers /\ u.handle = s.handle /\ u.status = s.status
      /\ u.active = s.active /\ u.queued = s.queued /\ u.launched = s.launched
      /\ u = [managers |-> u.managers, handle |-> u.handle, status |-> u.status,
              active |-> u.active, queued |-> u.queued, launched |-> u.launched]
  BY DEF Sys, SysType
<1>5. managers \in [DOMAIN s.managers \cup {h} -> Managers]
  BY <1>2
<1>6. managers[h] = m
  BY DEF After
<1> HIDE DEF u
<1>7. SysType(u)
  <2>1. DOMAIN u.managers \subseteq 1 .. u.handle - 1
    BY <1>4 DEF Sys, SysType
  <2> HIDE DEF managers
  <2> QED BY <1>4, <1>5, <2>1 DEF Sys, SysType
<1>8. u.status \in {"connecting", "connected"} => u.active # NoManager
  BY <1>4, NoManagerExists DEF Sys, Running, Enabled
<1>9. Sys(StopUnlessEnabled(u)) /\ StopUnlessEnabled(u).managers = managers
      /\ StopUnlessEnabled(u).handle = s.handle
  BY <1>4, <1>7, <1>8, StopUnlessEnabledSys
<1> QED
  BY <1>1, <1>3, <1>5, <1>6, <1>9

\* removeFromPreferences takes its manager away and leaves the others as they are.
LEMMA RemoveSys ==
  ASSUME NEW s, Sys(s), NEW h
  PROVE  LET t == RemoveFromPreferences(s, h)
         IN  /\ Sys(t) /\ t.handle = s.handle
             /\ t.managers = [k \in DOMAIN s.managers \ {h} |-> s.managers[k]]
<1> DEFINE managers == [k \in DOMAIN s.managers \ {h} |-> s.managers[k]]
           u == [s EXCEPT !.managers = managers]
<1>1. RemoveFromPreferences(s, h) = StopUnlessEnabled(u)
  BY DEF RemoveFromPreferences
<1>2. /\ u.managers = managers /\ u.handle = s.handle /\ u.status = s.status
      /\ u.active = s.active /\ u.queued = s.queued /\ u.launched = s.launched
      /\ u = [managers |-> u.managers, handle |-> u.handle, status |-> u.status,
              active |-> u.active, queued |-> u.queued, launched |-> u.launched]
  BY DEF Sys, SysType
<1>3. managers \in [DOMAIN managers -> Managers] /\ DOMAIN managers \subseteq DOMAIN s.managers
  BY DEF Sys, SysType
<1> HIDE DEF u
<1>4. SysType(u)
  <2> HIDE DEF managers
  <2> QED BY <1>2, <1>3 DEF Sys, SysType
<1>5. u.status \in {"connecting", "connected"} => u.active # NoManager
  BY <1>2, NoManagerExists DEF Sys, Running, Enabled
<1>6. Sys(StopUnlessEnabled(u)) /\ StopUnlessEnabled(u).managers = managers
      /\ StopUnlessEnabled(u).handle = s.handle
  BY <1>2, <1>4, <1>5, StopUnlessEnabledSys
<1> QED
  BY <1>1, <1>6

\* What starts once a tunnel is down belongs to an enabled manager.
LEMMA DisconnectedSys ==
  ASSUME NEW s, Sys(s)
  PROVE  LET t == Disconnected(s)
         IN  Sys(t) /\ t.managers = s.managers /\ t.handle = s.handle
<1>1. CASE s.queued # NoManager /\ Enabled(s, s.queued)
  BY <1>1 DEF Disconnected, Sys, SysType, Running, Enabled, Exists, Stati, NoManager
<1>2. CASE ~ (s.queued # NoManager /\ Enabled(s, s.queued))
  BY <1>2 DEF Disconnected, Sys, SysType, Running, Enabled, Exists, Stati, NoManager
<1> QED
  BY <1>1, <1>2
-----------------------------------------------------------------------------
(* The calls of the application.                                           *)

CopyType == [h : Nat, id : Ids \cup {"none"}, version : Nat]
CallType == [method : Methods \cup {"none"},
             at : {"new", "save", "load", "retain", "sleep", "disable", "remove", "done"},
             target : CopyType, rest : SUBSET CopyType,
             failed : BOOLEAN, outrun : BOOLEAN]

\* The managers that a call has looked up and not left behind.
Held(x) == {x.target} \cup x.rest

\* It is about to save a manager that it has made.
IsNew(x) == x.at = "save" /\ x.target.version = 0

\* A handle stands for one manager for ever, and so does the identifier of a copy.
CopyOK(s, m) == /\ m \in CopyType /\ m.h < s.handle
                /\ Exists(s, m.h) => s.managers[m.h].id = m.id

\* A disconnection or an uninstallation that nothing has gone wrong with has the
\* managers that are enabled still to come.
Sweeps(s, x) ==
    x.at \in {"disable", "remove"} /\ ~x.failed /\ ~x.outrun
    => \A h \in DOMAIN s.managers : s.managers[h].enabled => \E m \in Held(x) : m.h = h

CallOK(s, x) ==
    /\ x \in CallType
    /\ \A m \in Held(x) : CopyOK(s, m)
    /\ \A m \in x.rest : m.version # 0
    /\ x.at = "disable" => x.target.version # 0
    /\ x.at \in {"save", "load", "retain", "sleep"}
         => x.method \notin {"disconnect", "uninstall"}
    /\ IsNew(x) => /\ x.target.h # NoManager /\ x.target.id \in Ids
                   /\ ~Exists(s, x.target.h)
                   /\ \A m \in x.rest : m.h # x.target.h
    /\ Sweeps(s, x)

\* Nobody else has heard of a manager that is about to be saved first.
Apart == \A c, k \in Calls : c # k /\ IsNew(calls[c])
            => \A m \in Held(calls[k]) : m.h # calls[c].target.h

\* Without an overlap one call at most is about to save, and it makes a manager
\* only for an identifier that has none.
OneInstalls ==
    /\ \A c, k \in Calls : calls[c].at = "save" /\ calls[k].at = "save" => c = k
    /\ \A c \in Calls : IsNew(calls[c]) =>
          \A h \in DOMAIN os.managers : os.managers[h].id # calls[c].target.id

AllOff == off => \A h \in DOMAIN os.managers : ~ os.managers[h].enabled

AppInv ==
    /\ Sys(os) /\ off \in BOOLEAN /\ overlap \in BOOLEAN
    /\ calls \in [Calls -> CallType]
    /\ \A c \in Calls : CallOK(os, calls[c])
    /\ AllOff /\ Apart
    /\ ~overlap => OneInstalls
    /\ NoTwins

\* From s to t no manager is new, or becomes enabled.
Narrows(s, t) ==
    /\ t.handle >= s.handle
    /\ DOMAIN t.managers \subseteq DOMAIN s.managers
    /\ \A h \in DOMAIN t.managers : /\ t.managers[h].id = s.managers[h].id
                                    /\ t.managers[h].enabled => s.managers[h].enabled

\* What a call holds stays right.
LEMMA CallNarrows ==
  ASSUME NEW s, NEW t, Sys(s), Sys(t), Narrows(s, t), NEW x, CallOK(s, x)
  PROVE  CallOK(t, x)
<1>1. \A m \in Held(x) : CopyOK(t, m)
  <2> SUFFICES ASSUME NEW m \in Held(x) PROVE CopyOK(t, m)
    OBVIOUS
  <2>1. m \in CopyType /\ m.h \in Nat /\ m.h < s.handle
        /\ (Exists(s, m.h) => s.managers[m.h].id = m.id)
    BY DEF CallOK, CopyOK, CopyType
  <2>2. s.handle \in Nat /\ t.handle \in Nat
    BY DEF Sys, SysType
  <2> QED BY <2>1, <2>2 DEF CopyOK, Narrows, Exists
<1>2. Sweeps(t, x)
  BY DEF CallOK, Sweeps, Narrows
<1> QED
  BY <1>1, <1>2 DEF CallOK, Narrows, Exists

\* A call goes on without making or enabling a manager.
LEMMA GoesKeeps ==
  ASSUME AppInv, NEW c \in Calls, NEW s, NEW x, Goes(c, s, x),
         overlap' \in BOOLEAN, overlap => overlap',
         Sys(s), Narrows(os, s), CallOK(s, x),
         \A m \in Held(x) : \/ m \in Held(calls[c]) \/ m = NoCopy
                            \/ Exists(os, m.h) \/ m.h >= os.handle,
         IsNew(x) => x.target.h >= os.handle,
         x.at = "save" /\ ~overlap' =>
            /\ \A k \in Calls : calls[k].at # "save"
            /\ IsNew(x) => \A h \in DOMAIN s.managers : s.managers[h].id # x.target.id,
         x.at = "done" /\ x.method \in {"disconnect", "uninstall"} /\ ~x.failed /\ ~x.outrun
            => \A h \in DOMAIN s.managers : ~ s.managers[h].enabled
  PROVE  AppInv'
<1>1. /\ os' = s /\ calls' = [calls EXCEPT ![c] = x]
      /\ calls' \in [Calls -> CallType]
      /\ \A k \in Calls : calls'[k] = IF k = c THEN x ELSE calls[k]
  BY DEF Goes, AppInv, CallOK
<1>2. off' \in BOOLEAN
  BY DEF Goes, AppInv
<1>3. \A k \in Calls : CallOK(os', calls'[k])
  BY <1>1, CallNarrows DEF AppInv
<1>4. AllOff'
  BY <1>1 DEF Goes, AppInv, AllOff, Narrows
<1>5. Apart'
  <2> SUFFICES ASSUME NEW d \in Calls, NEW k \in Calls, d # k, IsNew(calls'[d]),
                      NEW m \in Held(calls'[k])
               PROVE  m.h # calls'[d].target.h
    BY DEF Apart
  <2>1. CASE d = c
    <3>1. calls'[k] = calls[k] /\ calls'[d] = x
      BY <1>1, <2>1
    <3>2. m.h < os.handle /\ m.h \in Nat
      BY <3>1 DEF AppInv, CallOK, CopyOK, CopyType
    <3>3. x.target.h >= os.handle /\ x.target.h \in Nat /\ os.handle \in Nat
      BY <2>1, <3>1 DEF AppInv, Sys, SysType, CallOK, CallType, CopyType
    <3> QED BY <3>1, <3>2, <3>3
  <2>2. CASE d # c
    <3>1. calls'[d] = calls[d] /\ IsNew(calls[d]) /\ CallOK(os, calls[d])
      BY <1>1, <2>2 DEF AppInv
    <3>2. /\ calls[d].target.h # NoManager /\ ~Exists(os, calls[d].target.h)
          /\ calls[d].target.h < os.handle
          /\ calls[d].target.h \in Nat /\ os.handle \in Nat
      BY <3>1 DEF AppInv, Sys, SysType, CallOK, CopyOK, CopyType, Held
    <3>3. CASE m \in Held(calls[k])
      BY <3>1, <3>3 DEF AppInv, Apart
    <3>4. CASE m \notin Held(calls[k])
      <4>1. k = c /\ m \in Held(x)
        BY <1>1, <3>4
      <4>2. m = NoCopy \/ Exists(os, m.h) \/ m.h >= os.handle
        BY <3>4, <4>1
      <4>3. m.h \in Nat
        BY <4>1 DEF CallOK, CopyOK, CopyType
      <4> QED BY <3>1, <3>2, <4>2, <4>3 DEF NoCopy
    <3> QED BY <3>3, <3>4
  <2> QED BY <2>1, <2>2
<1>6. NoTwins'
  BY <1>1 DEF AppInv, NoTwins, Narrows
<1>7. ~overlap' => OneInstalls'
  <2> SUFFICES ASSUME ~overlap' PROVE OneInstalls'
    OBVIOUS
  <2>1. OneInstalls
    BY DEF AppInv
  <2>2. CASE x.at = "save"
    <3>1. \A k \in Calls : calls'[k].at = "save" => k = c
      BY <1>1, <2>2
    <3> QED BY <1>1, <2>2, <3>1 DEF OneInstalls, IsNew
  <2>3. CASE x.at # "save"
    <3>1. \A k \in Calls : calls'[k].at = "save" => calls'[k] = calls[k]
      BY <1>1, <2>3
    <3> QED BY <1>1, <2>1, <3>1 DEF OneInstalls, IsNew, Narrows
  <2> QED BY <2>2, <2>3
<1> QED
  BY <1>1, <1>2, <1>3, <1>4, <1>5, <1>6, <1>7 DEF AppInv

\* What a call may go on with: the system has not gained a manager meanwhile, and
\* what it holds it had before or has just looked up.
Carries(c, s, x) ==
    /\ Sys(s) /\ Narrows(os, s) /\ x \in CallType
    /\ \A m \in Held(x) : /\ CopyOK(s, m)
                          /\ m \in Held(calls[c]) \/ m = NoCopy \/ Exists(os, m.h)
    /\ \A m \in x.rest : m.version # 0

\* The same managers are no more managers.
LEMMA NarrowsRefl ==
  ASSUME NEW s, Sys(s), NEW t, t.managers = s.managers, t.handle = s.handle
  PROVE  Narrows(s, t)
  BY DEF Narrows, Sys, SysType

\* No copy at all is a copy that is right.
LEMMA NoCopyOK ==
  ASSUME NEW s, Sys(s)
  PROVE  CopyOK(s, NoCopy)
  BY NoManagerExists DEF CopyOK, NoCopy, CopyType, Sys, SysType, NoManager

\* A call that is over.
LEMMA DoneKeeps ==
  ASSUME AppInv, NEW c \in Calls, NEW s, NEW x, Carries(c, s, x), Goes(c, s, Done(x)),
         overlap' \in BOOLEAN, overlap => overlap',
         x.method \in {"disconnect", "uninstall"} /\ ~x.failed /\ ~x.outrun
            => \A h \in DOMAIN s.managers : ~ s.managers[h].enabled
  PROVE  AppInv'
<1> DEFINE y == Done(x)
<1>1. y = [x EXCEPT !.at = "done", !.rest = {}, !.target = NoCopy]
  BY DEF Done
<1>2. CopyOK(s, NoCopy) /\ NoCopy \in CopyType
  BY NoCopyOK DEF Carries, CopyOK
<1> HIDE DEF y
<1>3. y \in CallType
  BY <1>1, <1>2 DEF Carries, CallType
<1>4. /\ y.at = "done" /\ y.rest = {} /\ y.target = NoCopy
      /\ y.method = x.method /\ y.failed = x.failed /\ y.outrun = x.outrun
  BY <1>1 DEF Carries, CallType
<1>5. Held(y) = {NoCopy} /\ ~ IsNew(y)
  BY <1>4 DEF Held, IsNew
<1>6. CallOK(s, y)
  BY <1>2, <1>3, <1>4, <1>5 DEF CallOK, Sweeps
<1>7. Goes(c, s, y)
  BY DEF y
<1> QED
  BY <1>4, <1>5, <1>6, <1>7, GoesKeeps DEF Carries

\* A call that stops the tunnel of a manager, and sleeps, or sees to the manager.
LEMMA StopKeeps ==
  ASSUME AppInv, NEW c \in Calls, NEW s, NEW x, Carries(c, s, x), NEW h,
         NEW y \in CallType, Held(y) \subseteq Held(x), y.rest \subseteq x.rest,
         y.at \in {"sleep", "disable", "remove"},
         y.at = "disable" => y.target.version # 0,
         y.at = "sleep" => y.method \notin {"disconnect", "uninstall"},
         Sweeps(s, y), Goes(c, StopVPNTunnel(s, h), y),
         overlap' \in BOOLEAN, overlap => overlap'
  PROVE  AppInv'
<1> DEFINE t == StopVPNTunnel(s, h)
<1>1. Sys(t) /\ t.managers = s.managers /\ t.handle = s.handle
  BY StopSys DEF Carries, Sys
<1>2. Goes(c, t, y)
  OBVIOUS
<1> HIDE DEF t
<1>3. Narrows(os, t)
  BY <1>1 DEF Carries, Narrows
<1>4. CallOK(s, y) /\ ~ IsNew(y)
  BY DEF CallOK, Carries, IsNew
<1>5. CallOK(t, y)
  BY <1>1, <1>4, NarrowsRefl, CallNarrows DEF Carries
<1> QED
  BY <1>1, <1>2, <1>3, <1>4, <1>5, GoesKeeps DEF Carries

\* disconnect and uninstall go on to the next manager, or are done with them all.
LEMMA NextManagerKeeps ==
  ASSUME AppInv, NEW c \in Calls, NEW s, NEW x, Carries(c, s, x), NextManager(c, s, x),
         overlap' \in BOOLEAN, overlap => overlap',
         ~x.failed /\ ~x.outrun
            => \A h \in DOMAIN s.managers : s.managers[h].enabled => \E m \in x.rest : m.h = h
  PROVE  AppInv'
<1>1. CASE x.rest = {}
  BY <1>1, DoneKeeps DEF NextManager
<1>2. CASE x.rest # {}
  <2> DEFINE at == IF x.method = "disconnect" THEN "disable" ELSE "remove"
  <2>1. PICK m \in x.rest : Goes(c, StopVPNTunnel(s, m.h),
                                 [x EXCEPT !.at = at, !.target = m, !.rest = @ \ {m}])
    BY <1>2 DEF NextManager
  <2> DEFINE y == [x EXCEPT !.at = at, !.target = m, !.rest = x.rest \ {m}]
  <2>2. Goes(c, StopVPNTunnel(s, m.h), y)
    BY <2>1
  <2>3. m \in CopyType /\ m.version # 0 /\ x.rest \in SUBSET CopyType
    BY DEF Carries, CallType
  <2>4. /\ y.at = at /\ y.target = m /\ y.rest = x.rest \ {m}
        /\ y.failed = x.failed /\ y.outrun = x.outrun
    BY DEF Carries, CallType
  <2>5. y \in CallType
    BY <2>3 DEF Carries, CallType
  <2> HIDE DEF y
  <2>6. Held(y) = x.rest /\ Held(y) \subseteq Held(x)
    BY <2>4 DEF Held
  <2>7. Sweeps(s, y)
    BY <2>4, <2>6 DEF Sweeps
  <2> QED BY <2>2, <2>3, <2>4, <2>5, <2>6, <2>7, StopKeeps
<1> QED
  BY <1>1, <1>2

\* A reconnection starts the tunnel, or stops it first.
LEMMA ReconnectKeeps ==
  ASSUME AppInv, NEW c \in Calls, NEW s, NEW x, Carries(c, s, x), Reconnect(c, s, x),
         overlap' \in BOOLEAN, overlap => overlap',
         x.method \notin {"disconnect", "uninstall"}
  PROVE  AppInv'
<1> DEFINE h == x.target.h
<1>1. CASE Status(s, h) # "disconnected"
  <2> DEFINE y == [x EXCEPT !.at = "sleep"]
  <2>1. Goes(c, StopVPNTunnel(s, h), y)
    BY <1>1 DEF Reconnect
  <2>2. y \in CallType /\ y.at = "sleep" /\ y.target = x.target /\ y.rest = x.rest
        /\ y.method = x.method
    BY DEF Carries, CallType
  <2> HIDE DEF y
  <2> QED BY <2>1, <2>2, StopKeeps DEF Held, Sweeps
<1>2. CASE Status(s, h) = "disconnected"
  <2>1. PICK t \in StartVPNTunnel(s, h) : Goes(c, t, Done(x))
    BY <1>2 DEF Reconnect
  <2>2. h \in Nat
    BY DEF Carries, CallType, CopyType
  <2>3. Sys(t) /\ t.managers = s.managers /\ t.handle = s.handle
    BY <2>2, StartSys DEF Carries
  <2>4. Carries(c, t, x)
    BY <2>3 DEF Carries, Narrows, CopyOK, Exists
  <2> QED BY <2>1, <2>4, DoneKeeps
<1> QED
  BY <1>1, <1>2

\* What follows once the other managers are gone keeps the invariant.
LEMMA InstalledKeeps ==
  ASSUME AppInv, NEW c \in Calls, NEW s, NEW x, Carries(c, s, x), Installed(c, s, x),
         overlap' \in BOOLEAN, overlap => overlap',
         x.method \notin {"disconnect", "uninstall"}
  PROVE  AppInv'
  BY DoneKeeps, ReconnectKeeps DEF Installed
-----------------------------------------------------------------------------
(* The steps of the application.                                           *)

\* A call that goes on from where it is holds what it may.
LEMMA CallCarries ==
  ASSUME AppInv, NEW c \in Calls
  PROVE  Carries(c, os, calls[c])
  BY NarrowsRefl DEF AppInv, Carries, CallOK

\* lookupAll finds every manager.
LEMMA LookupFinds ==
  ASSUME NEW s, Sys(s)
  PROVE  /\ \A m \in LookupAll(s) : /\ m \in CopyType /\ CopyOK(s, m) /\ m.version # 0
                                   /\ Exists(s, m.h)
         /\ \A h \in DOMAIN s.managers : \E m \in LookupAll(s) :
               m.h = h /\ m.id = s.managers[h].id
<1>1. \A h \in DOMAIN s.managers :
         /\ s.managers[h] \in Managers
         /\ h \in Nat /\ h < s.handle
  BY DEF Sys, SysType
<1>2. \A h \in DOMAIN s.managers :
         /\ Copy(s, h) \in CopyType /\ CopyOK(s, Copy(s, h)) /\ Copy(s, h).version # 0
         /\ Copy(s, h).h = h /\ Copy(s, h).id = s.managers[h].id
  BY <1>1 DEF Copy, CopyOK, CopyType, Managers
<1> QED
  BY <1>2 DEF LookupAll, Exists

\* installReturningManager looks the managers up and takes the one to save.
LEMMA InstallKeeps ==
  ASSUME AppInv, NEW c \in Calls, NEW id \in Ids, NEW x,
         x = [calls[c] EXCEPT !.method = x.method, !.outrun = FALSE],
         x.method \in Installing,
         NEW target \in TargetManager(LookupAll(os), id),
         Goes(c, [os EXCEPT !.handle = IF target.version = 0 THEN @ + 1 ELSE @],
              [x EXCEPT !.at = "save", !.target = target,
                        !.rest = {m \in LookupAll(os) : m.id # id}]),
         overlap' = (overlap \/ \E k \in Calls : calls[k].at = "save")
  PROVE  AppInv'
<1> DEFINE found == LookupAll(os)
           others == {m \in found : m.id # id}
           handle == IF target.version = 0 THEN os.handle + 1 ELSE os.handle
           s == [os EXCEPT !.handle = handle]
           y == [x EXCEPT !.at = "save", !.target = target, !.rest = others]
<1>1. Goes(c, s, y) /\ Sys(os) /\ calls[c] \in CallType
  BY DEF AppInv
<1>2. /\ \A m \in found : m \in CopyType /\ CopyOK(os, m) /\ m.version # 0 /\ Exists(os, m.h)
      /\ \A h \in DOMAIN os.managers : \E m \in found : m.h = h /\ m.id = os.managers[h].id
  BY <1>1, LookupFinds
<1> HIDE DEF found
<1>3. \/ target \in found
      \/ /\ target = [h |-> os.handle, id |-> id, version |-> 0]
         /\ \A m \in found : m.id # id
  BY DEF TargetManager, found
<1>4. os.handle \in Nat \ {0}
  BY <1>1 DEF Sys, SysType
<1>5. /\ target \in CopyType /\ others \in SUBSET CopyType
      /\ target.version = 0 => /\ target.h = os.handle /\ target.id = id
                               /\ \A m \in found : m.id # id
      /\ target.version # 0 => CopyOK(os, target) /\ Exists(os, target.h)
  BY <1>2, <1>3, <1>4 DEF CopyType
<1> HIDE DEF others
<1>6. /\ s.managers = os.managers /\ s.handle = handle /\ handle >= os.handle
      /\ handle \in Nat \ {0}
      /\ target.version = 0 => handle = os.handle + 1
  BY <1>1, <1>4 DEF Sys, SysType
<1> HIDE DEF handle
<1>7. Sys(s) /\ Narrows(os, s)
  <2>1. s = [managers |-> os.managers, handle |-> handle, status |-> os.status,
             active |-> os.active, queued |-> os.queued, launched |-> os.launched]
    BY <1>1 DEF Sys, SysType
  <2>2. DOMAIN os.managers \subseteq 1 .. handle - 1
    BY <1>1, <1>4, <1>6 DEF Sys, SysType
  <2> HIDE DEF s
  <2>3. /\ s.managers = os.managers /\ s.handle = handle /\ s.status = os.status
        /\ s.active = os.active /\ s.queued = os.queued /\ s.launched = os.launched
    BY <2>1
  <2>4. SysType(s)
    BY <1>1, <1>6, <2>1, <2>2, <2>3 DEF Sys, SysType
  <2>5. Running(s)
    BY <1>1, <2>3 DEF Sys, Running, Enabled, Exists
  <2> QED BY <1>6, <2>3, <2>4, <2>5 DEF Sys, Narrows
<1> HIDE DEF s
<1>8. x \in CallType
  BY <1>1 DEF CallType, Methods
<1>9. /\ y.at = "save" /\ y.target = target /\ y.rest = others /\ y.method = x.method
      /\ y \in CallType
  BY <1>5, <1>8 DEF CallType
<1> HIDE DEF y
<1>10. \A m \in Held(y) : CopyOK(s, m) /\ (Exists(os, m.h) \/ m.h >= os.handle)
  <2>1. \A m \in found : CopyOK(s, m) /\ Exists(os, m.h)
    BY <1>2, <1>4, <1>6 DEF CopyOK, CopyType, Exists
  <2>2. CASE target.version = 0
    <3>1. CopyOK(s, target) /\ target.h >= os.handle
      BY <1>4, <1>5, <1>6, <2>2, <1>1 DEF CopyOK, Exists, Sys, SysType
    <3> QED BY <1>9, <2>1, <3>1 DEF Held, others
  <2>3. CASE target.version # 0
    <3>1. CopyOK(s, target) /\ Exists(os, target.h)
      BY <1>4, <1>5, <1>6, <2>3 DEF CopyOK, CopyType, Exists
    <3> QED BY <1>9, <2>1, <3>1 DEF Held, others
  <2> QED BY <2>2, <2>3
<1>11. IsNew(y) => /\ y.target.h = os.handle /\ y.target.h # NoManager /\ y.target.id \in Ids
                   /\ ~Exists(s, y.target.h)
                   /\ \A m \in y.rest : m.h # y.target.h
                   /\ \A h \in DOMAIN s.managers : s.managers[h].id # y.target.id
  <2> SUFFICES ASSUME IsNew(y)
               PROVE  /\ os.handle # NoManager /\ ~Exists(os, os.handle)
                      /\ \A m \in found : m.h # os.handle
                      /\ \A h \in DOMAIN os.managers : os.managers[h].id # id
    BY <1>5, <1>6, <1>9 DEF IsNew, Exists, others
  <2>1. target.version = 0
    BY <1>9 DEF IsNew
  <2>2. os.handle # NoManager /\ os.handle \notin DOMAIN os.managers
    BY <1>1, <1>4 DEF Sys, SysType, NoManager
  <2> QED BY <1>2, <1>5, <2>1, <2>2 DEF Exists
<1>12. CallOK(s, y)
  BY <1>2, <1>9, <1>10, <1>11 DEF CallOK, Sweeps, others, Installing
<1>13. overlap' \in BOOLEAN /\ (overlap => overlap')
  BY DEF AppInv
<1>14. \A m \in Held(y) : \/ m \in Held(calls[c]) \/ m = NoCopy
                          \/ Exists(os, m.h) \/ m.h >= os.handle
  BY <1>10
<1>15. IsNew(y) => y.target.h >= os.handle
  BY <1>4, <1>11
<1>16. ~overlap' => /\ \A k \in Calls : calls[k].at # "save"
                    /\ IsNew(y) => \A h \in DOMAIN s.managers : s.managers[h].id # y.target.id
  BY <1>11
<1> QED
  BY <1>1, <1>7, <1>9, <1>12, <1>13, <1>14, <1>15, <1>16, GoesKeeps

\* A method that is called keeps it, whichever it is.
LEMMA CallKeeps ==
  ASSUME AppInv, NEW c \in Calls, NEW method \in Methods, NEW id \in Ids, Call(c, method, id)
  PROVE  AppInv'
<1> DEFINE found == LookupAll(os)
           x == [calls[c] EXCEPT !.method = method, !.outrun = FALSE]
<1>1. /\ overlap' \in BOOLEAN /\ (overlap => overlap')
      /\ method \in Installing
           => overlap' = (overlap \/ \E k \in Calls : calls[k].at = "save")
  BY DEF Call, AppInv
<1>2. calls[c] \in CallType /\ Sys(os)
  BY DEF AppInv
<1>3. /\ x \in CallType /\ x.method = method /\ x.target = calls[c].target
      /\ x.rest = calls[c].rest
  BY <1>2 DEF CallType
<1>4. /\ \A m \in found : m \in CopyType /\ CopyOK(os, m) /\ m.version # 0 /\ Exists(os, m.h)
      /\ \A h \in DOMAIN os.managers : \E m \in found : m.h = h
  BY <1>2, LookupFinds
<1>5. Carries(c, os, calls[c])
  BY CallCarries
<1>6. CASE method \in Installing
  <2>1. PICK target \in TargetManager(found, id) :
          Goes(c, [os EXCEPT !.handle = IF target.version = 0 THEN @ + 1 ELSE @],
               [x EXCEPT !.at = "save", !.target = target,
                         !.rest = {m \in found : m.id # id}])
    BY <1>6 DEF Call, Installing
  <2>2. x = [calls[c] EXCEPT !.method = x.method, !.outrun = FALSE]
    BY <1>3
  <2> HIDE DEF x
  <2> QED BY <1>1, <1>3, <1>6, <2>1, <2>2, InstallKeeps
<1>7. CASE method = "reconnect"
  <2>1. \/ Goes(c, os, Done(x))
        \/ \E m \in found : Reconnect(c, os, [x EXCEPT !.target = m])
    BY <1>7 DEF Call, Installing
  <2>2. CASE Goes(c, os, Done(x))
    <3>1. Carries(c, os, x)
      <4> HIDE DEF x
      <4> QED BY <1>3, <1>5 DEF Carries, Held
    <3> QED BY <1>1, <1>3, <1>7, <2>2, <3>1, DoneKeeps
  <2>3. ASSUME NEW m \in found, Reconnect(c, os, [x EXCEPT !.target = m])
        PROVE  AppInv'
    <3> DEFINE y == [x EXCEPT !.target = m]
    <3>1. y \in CallType /\ y.target = m /\ y.rest = x.rest /\ y.method = method
      BY <1>3, <1>4 DEF CallType
    <3> HIDE DEF x, y
    <3>2. Carries(c, os, y)
      BY <1>3, <1>4, <1>5, <3>1 DEF Carries, Held
    <3> QED BY <1>1, <1>7, <2>3, <3>1, <3>2, ReconnectKeeps DEF y
  <2> QED BY <2>1, <2>2, <2>3
<1>8. CASE method \in {"disconnect", "uninstall"}
  <2> DEFINE y == [x EXCEPT !.rest = found]
  <2>1. NextManager(c, os, y)
    BY <1>8 DEF Call, Installing
  <2>2. y \in CallType /\ y.target = x.target /\ y.rest = found
    BY <1>3, <1>4 DEF CallType
  <2> HIDE DEF x, y
  <2>3. Carries(c, os, y)
    BY <1>3, <1>4, <1>5, <2>2 DEF Carries, Held
  <2> QED BY <1>1, <1>4, <2>1, <2>2, <2>3, NextManagerKeeps
<1> QED
  BY <1>6, <1>7, <1>8 DEF Methods, Installing

\* install saves the manager and enables it.
LEMMA EnablingKeeps ==
  ASSUME AppInv, NEW c \in Calls, NEW onDemand \in BOOLEAN,
         calls[c].at = "save", Fresh(os, calls[c].target), UNCHANGED overlap,
         GoesEnabling(c, SaveToPreferences(os, calls[c].target.h,
                                           Saved(calls[c].target, TRUE, onDemand)),
                      [calls[c] EXCEPT !.at = "load"])
  PROVE  AppInv'
<1> DEFINE x == calls[c]
           h == x.target.h
           m == Saved(x.target, TRUE, onDemand)
           t == SaveToPreferences(os, h, m)
           y == [x EXCEPT !.at = "load"]
           After(k) == [(IF k = c THEN y ELSE calls[k]) EXCEPT !.outrun = TRUE]
<1>1. /\ Sys(os) /\ \A k \in Calls : calls[k] \in CallType /\ CallOK(os, calls[k])
      /\ os.handle \in Nat /\ DOMAIN os.managers \subseteq 1 .. os.handle - 1
  BY DEF AppInv, Sys, SysType
<1>2. /\ x.target \in CopyType /\ CopyOK(os, x.target) /\ h \in Nat
      /\ x.method \notin {"disconnect", "uninstall"}
  BY <1>1 DEF CallOK, CallType, CopyType, Held
<1>3. /\ h \in 1 .. os.handle - 1 /\ x.target.id \in Ids
      /\ x.target.version = 0 => ~Exists(os, h)
      /\ x.target.version # 0 => Exists(os, h) /\ os.managers[h].id = x.target.id
  <2>1. CASE x.target.version = 0
    BY <1>1, <1>2, <2>1 DEF Fresh, CallOK, CopyOK, IsNew, NoManager
  <2>2. CASE x.target.version # 0
    <3>1. Exists(os, h) /\ os.managers[h] \in Managers /\ os.managers[h].id = x.target.id
      BY <1>1, <1>2, <2>2 DEF Fresh, CopyOK, Exists, Sys, SysType
    <3> QED BY <1>1, <2>2, <3>1 DEF Exists, Managers
  <2> QED BY <2>1, <2>2
<1>4. m \in Managers /\ m.id = x.target.id
  BY <1>2, <1>3 DEF Saved, Managers, CopyType
<1> HIDE DEF m
<1>5. /\ Sys(t) /\ t.handle = os.handle
      /\ DOMAIN t.managers = DOMAIN os.managers \cup {h}
      /\ t.managers[h] = m
      /\ \A k \in DOMAIN os.managers \ {h} : t.managers[k].id = os.managers[k].id
  BY <1>1, <1>3, <1>4, SaveSys
<1>6. /\ os' = t /\ off' = FALSE /\ overlap' = overlap
      /\ calls' = [k \in Calls |-> After(k)]
  BY DEF GoesEnabling, m
<1> HIDE DEF t
<1>7. \A k \in Calls :
         /\ After(k) \in CallType /\ After(k).outrun
         /\ After(k).target = calls[k].target /\ After(k).rest = calls[k].rest
         /\ After(k).method = calls[k].method /\ After(k).at = IF k = c THEN "load" ELSE calls[k].at
  <2> SUFFICES ASSUME NEW k \in Calls
               PROVE  /\ After(k) \in CallType /\ After(k).outrun
                      /\ After(k).target = calls[k].target /\ After(k).rest = calls[k].rest
                      /\ After(k).method = calls[k].method
                      /\ After(k).at = IF k = c THEN "load" ELSE calls[k].at
    OBVIOUS
  <2> DEFINE z == IF k = c THEN y ELSE calls[k]
  <2>1. /\ z \in CallType /\ z.target = calls[k].target /\ z.rest = calls[k].rest
        /\ z.method = calls[k].method /\ z.at = IF k = c THEN "load" ELSE calls[k].at
    BY <1>1 DEF CallType
  <2>2. After(k) = [z EXCEPT !.outrun = TRUE]
    OBVIOUS
  <2> HIDE DEF z, After
  <2> QED BY <2>1, <2>2 DEF CallType
<1> HIDE DEF After
<1>8. /\ calls' \in [Calls -> CallType]
      /\ \A k \in Calls : /\ calls'[k] = After(k)
                          /\ Held(After(k)) = Held(calls[k])
                          /\ IsNew(After(k)) => k # c /\ IsNew(calls[k])
  BY <1>6, <1>7 DEF Held, IsNew
<1>9. \A k \in Calls : \A n \in Held(calls[k]) : CopyOK(t, n)
  <2> SUFFICES ASSUME NEW k \in Calls, NEW n \in Held(calls[k]) PROVE CopyOK(t, n)
    OBVIOUS
  <2>1. CopyOK(os, n) /\ n.h \in Nat
    BY <1>1 DEF CallOK, CopyOK, CopyType
  <2>2. CASE n.h # h
    BY <1>5, <2>1, <2>2 DEF CopyOK, Exists
  <2>3. CASE n.h = h
    <3>1. CASE x.target.version = 0
      <4>1. IsNew(x)
        BY <3>1 DEF IsNew
      <4>2. n = x.target
        BY <1>1, <2>3, <4>1 DEF AppInv, Apart, CallOK, Held
      <4> QED BY <1>4, <1>5, <2>1, <2>3, <4>2 DEF CopyOK, Exists
    <3>2. CASE x.target.version # 0
      BY <1>3, <1>4, <1>5, <2>1, <2>3, <3>2 DEF CopyOK, Exists
    <3> QED BY <3>1, <3>2
  <2> QED BY <2>2, <2>3
<1>10. \A k \in Calls : CallOK(os', calls'[k])
  <2> SUFFICES ASSUME NEW k \in Calls PROVE CallOK(t, After(k))
    BY <1>6, <1>8
  <2>1. CallOK(os, calls[k])
    BY <1>1
  <2>2. IsNew(After(k)) => ~Exists(t, After(k).target.h)
    <3> SUFFICES ASSUME IsNew(After(k)) PROVE ~Exists(t, calls[k].target.h)
      BY <1>7
    <3>1. k # c /\ IsNew(calls[k])
      BY <1>8
    <3>2. x.target.h # calls[k].target.h
      BY <3>1 DEF AppInv, Apart, Held
    <3>3. ~Exists(os, calls[k].target.h)
      BY <2>1, <3>1 DEF CallOK
    <3> QED BY <1>5, <3>2, <3>3 DEF Exists
  <2>3. Sweeps(t, After(k))
    BY <1>7 DEF Sweeps
  <2>4. \A n \in Held(After(k)) : CopyOK(t, n)
    BY <1>8, <1>9
  <2> QED BY <1>2, <1>7, <1>8, <2>1, <2>2, <2>3, <2>4 DEF CallOK, IsNew
<1>11. AllOff'
  BY <1>6 DEF AllOff
<1>12. Apart'
  <2> SUFFICES ASSUME NEW d \in Calls, NEW k \in Calls, d # k, IsNew(After(d)),
                      NEW n \in Held(After(k))
               PROVE  n.h # After(d).target.h
    BY <1>8 DEF Apart
  <2>1. IsNew(calls[d]) /\ n \in Held(calls[k]) /\ After(d).target = calls[d].target
    BY <1>7, <1>8
  <2> QED BY <2>1 DEF AppInv, Apart
<1>13. ~overlap' => OneInstalls'
  <2> SUFFICES ASSUME ~overlap PROVE OneInstalls'
    BY <1>6
  <2>1. OneInstalls
    BY DEF AppInv
  <2>2. \A k \in Calls : After(k).at # "save"
    BY <1>7, <2>1 DEF OneInstalls
  <2>3. \A k \in Calls : calls'[k].at # "save"
    BY <1>8, <2>2
  <2> QED BY <2>3 DEF OneInstalls, IsNew
<1>14. NoTwins'
  <2> SUFFICES ASSUME ~overlap, NEW i \in DOMAIN t.managers, NEW j \in DOMAIN t.managers,
                      t.managers[i].id = t.managers[j].id
               PROVE  i = j
    BY <1>6 DEF NoTwins
  <2>1. /\ \A k \in DOMAIN os.managers : t.managers[k].id = os.managers[k].id
        /\ x.target.version # 0 => DOMAIN t.managers = DOMAIN os.managers
    BY <1>3, <1>4, <1>5 DEF Exists
  <2>2. \A k, l \in DOMAIN os.managers : os.managers[k].id = os.managers[l].id => k = l
    BY DEF AppInv, NoTwins
  <2>3. CASE x.target.version # 0
    BY <2>1, <2>2, <2>3
  <2>4. CASE x.target.version = 0
    <3>1. \A k \in DOMAIN os.managers : os.managers[k].id # x.target.id
      BY <2>4 DEF AppInv, OneInstalls, IsNew
    <3> QED BY <1>4, <1>5, <2>1, <2>2, <3>1
  <2> QED BY <2>3, <2>4
<1> QED
  BY <1>5, <1>6, <1>8, <1>10, <1>11, <1>12, <1>13, <1>14 DEF AppInv

\* A removal leaves fewer managers.
LEMMA RemoveNarrows ==
  ASSUME NEW s, Sys(s), NEW h
  PROVE  LET t == RemoveFromPreferences(s, h)
         IN  /\ Sys(t) /\ Narrows(s, t)
             /\ DOMAIN t.managers = DOMAIN s.managers \ {h}
<1> DEFINE t == RemoveFromPreferences(s, h)
<1>1. /\ Sys(t) /\ t.handle = s.handle /\ s.handle \in Nat
      /\ t.managers = [k \in DOMAIN s.managers \ {h} |-> s.managers[k]]
  BY RemoveSys DEF Sys, SysType
<1> HIDE DEF t
<1>2. /\ DOMAIN t.managers = DOMAIN s.managers \ {h}
      /\ \A k \in DOMAIN t.managers : t.managers[k] = s.managers[k]
  BY <1>1
<1> QED
  BY <1>1, <1>2 DEF t, Narrows

\* The save of an installation keeps it, whether or not it is refused.
LEMMA SaveManagerKeeps ==
  ASSUME AppInv, NEW c \in Calls, NEW onDemand \in BOOLEAN, SaveManager(c, onDemand)
  PROVE  AppInv'
<1>1. CASE Goes(c, os, Done(calls[c]))
  <2>1. calls[c].method \notin {"disconnect", "uninstall"}
    BY DEF SaveManager, AppInv, CallOK
  <2> QED BY <1>1, <2>1, CallCarries, DoneKeeps DEF SaveManager, AppInv
<1>2. CASE ~ Goes(c, os, Done(calls[c]))
  BY <1>2, EnablingKeeps DEF SaveManager
<1> QED
  BY <1>1, <1>2

\* So does the load after the save,
LEMMA LoadKeeps ==
  ASSUME AppInv, NEW c \in Calls, Load(c)
  PROVE  AppInv'
<1> DEFINE x == calls[c]
           y == [x EXCEPT !.at = "retain"]
<1>1. /\ Carries(c, os, x) /\ overlap' \in BOOLEAN /\ (overlap => overlap')
      /\ Sys(os) /\ CallOK(os, x) /\ x.at = "load"
      /\ x.method \notin {"disconnect", "uninstall"}
  BY CallCarries DEF Load, AppInv, CallOK
<1>2. CASE Goes(c, os, y)
  <2>1. y \in CallType /\ y.at = "retain" /\ y.target = x.target /\ y.rest = x.rest
        /\ y.method = x.method
    BY <1>1 DEF CallOK, CallType
  <2> HIDE DEF y
  <2>2. CallOK(os, y) /\ ~ IsNew(y) /\ Held(y) = Held(x)
    BY <1>1, <2>1 DEF CallOK, Held, IsNew, Sweeps
  <2> QED BY <1>1, <1>2, <2>1, <2>2, GoesKeeps DEF Carries
<1>3. CASE Goes(c, os, Done(x))
  BY <1>1, <1>3, DoneKeeps
<1>4. CASE Installed(c, os, x)
  BY <1>1, <1>4, InstalledKeeps
<1> QED
  BY <1>2, <1>3, <1>4 DEF Load

\* the removal of a manager of another extension,
LEMMA RetainKeeps ==
  ASSUME AppInv, NEW c \in Calls, Retain(c)
  PROVE  AppInv'
<1>0. PICK o \in calls[c].rest : \E s \in {os, RemoveFromPreferences(os, o.h)} :
         LET x == [calls[c] EXCEPT !.rest = @ \ {o}]
         IN  IF x.rest = {} THEN Installed(c, s, x) ELSE Goes(c, s, x)
  BY DEF Retain
<1>1. PICK s \in {os, RemoveFromPreferences(os, o.h)} :
         LET x == [calls[c] EXCEPT !.rest = @ \ {o}]
         IN  IF x.rest = {} THEN Installed(c, s, x) ELSE Goes(c, s, x)
  BY <1>0
<1> DEFINE x == [calls[c] EXCEPT !.rest = calls[c].rest \ {o}]
<1>2. /\ overlap' \in BOOLEAN /\ (overlap => overlap')
      /\ Sys(os) /\ CallOK(os, calls[c]) /\ calls[c].at = "retain"
  BY DEF Retain, AppInv
<1>3. /\ x \in CallType /\ x.at = "retain" /\ x.target = calls[c].target
      /\ x.rest = calls[c].rest \ {o} /\ x.method = calls[c].method
  BY <1>2 DEF CallOK, CallType
<1>4. IF x.rest = {} THEN Installed(c, s, x) ELSE Goes(c, s, x)
  BY <1>1
<1> HIDE DEF x
<1>5. Sys(s) /\ Narrows(os, s)
  BY <1>2, RemoveNarrows, NarrowsRefl
<1>6. Held(x) \subseteq Held(calls[c])
  BY <1>3 DEF Held
<1>7. CallOK(s, calls[c]) /\ x.method \notin {"disconnect", "uninstall"}
  BY <1>2, <1>3, <1>5, CallNarrows DEF CallOK
<1>8. CASE x.rest = {}
  <2>1. Carries(c, s, x)
    BY <1>3, <1>5, <1>6, <1>7 DEF Carries, CallOK
  <2> QED BY <1>2, <1>4, <1>7, <1>8, <2>1, InstalledKeeps
<1>9. CASE x.rest # {}
  <2>1. CallOK(s, x) /\ ~ IsNew(x)
    BY <1>3, <1>6, <1>7 DEF CallOK, IsNew, Sweeps
  <2> QED BY <1>2, <1>3, <1>4, <1>5, <1>6, <1>9, <2>1, GoesKeeps
<1> QED
  BY <1>8, <1>9

\* and the start after the sleep of a reconnection.
LEMMA AwakeKeeps ==
  ASSUME AppInv, NEW c \in Calls, Awake(c)
  PROVE  AppInv'
<1>1. PICK s \in StartVPNTunnel(os, calls[c].target.h) : Goes(c, s, Done(calls[c]))
  BY DEF Awake
<1>2. /\ overlap' \in BOOLEAN /\ (overlap => overlap')
      /\ Sys(os) /\ CallOK(os, calls[c]) /\ calls[c].target.h \in Nat
      /\ calls[c].method \notin {"disconnect", "uninstall"}
  BY DEF Awake, AppInv, CallOK, CallType, CopyType
<1>3. Sys(s) /\ s.managers = os.managers /\ s.handle = os.handle
  BY <1>2, StartSys
<1>4. Carries(c, s, calls[c])
  BY <1>3, CallCarries DEF Carries, Narrows, CopyOK, Exists
<1> QED
  BY <1>1, <1>2, <1>4, DoneKeeps

\* disconnect and uninstall could not see to a manager.
LEMMA FailedKeeps ==
  ASSUME AppInv, NEW c \in Calls, NextManager(c, os, [calls[c] EXCEPT !.failed = TRUE]),
         UNCHANGED overlap
  PROVE  AppInv'
<1> DEFINE x == [calls[c] EXCEPT !.failed = TRUE]
<1>1. overlap' \in BOOLEAN /\ (overlap => overlap') /\ calls[c] \in CallType
  BY DEF AppInv
<1>2. x \in CallType /\ x.target = calls[c].target /\ x.rest = calls[c].rest /\ x.failed
  BY <1>1 DEF CallType
<1> HIDE DEF x
<1>3. Carries(c, os, x)
  BY <1>2, CallCarries DEF Carries, Held
<1> QED
  BY <1>1, <1>2, <1>3, NextManagerKeeps DEF x

\* They have seen to one: it is disabled, or gone.
LEMMA SeenKeeps ==
  ASSUME AppInv, NEW c \in Calls, NEW s, Sys(s), Narrows(os, s),
         NextManager(c, s, calls[c]), UNCHANGED overlap,
         calls[c].at \in {"disable", "remove"},
         LET h == calls[c].target.h
         IN  h \in DOMAIN s.managers => ~ s.managers[h].enabled
  PROVE  AppInv'
<1> DEFINE x == calls[c]
<1>1. overlap' \in BOOLEAN /\ (overlap => overlap') /\ Sys(os) /\ CallOK(os, x)
  BY DEF AppInv
<1>2. CallOK(s, x)
  BY <1>1, CallNarrows
<1>3. Carries(c, s, x)
  BY <1>2 DEF Carries, CallOK
<1>4. ~x.failed /\ ~x.outrun
        => \A h \in DOMAIN s.managers : s.managers[h].enabled => \E m \in x.rest : m.h = h
  BY <1>2 DEF CallOK, Sweeps, Held
<1> QED
  BY <1>1, <1>3, <1>4, NextManagerKeeps

\* disconnect saves a manager that is disabled,
LEMMA DisableManagerKeeps ==
  ASSUME AppInv, NEW c \in Calls, DisableManager(c)
  PROVE  AppInv'
<1> DEFINE h == calls[c].target.h
           m == Saved(calls[c].target, FALSE, FALSE)
           t == SaveToPreferences(os, h, m)
<1>1. CASE NextManager(c, os, [calls[c] EXCEPT !.failed = TRUE])
  BY <1>1, FailedKeeps DEF DisableManager
<1>2. CASE Fresh(os, calls[c].target) /\ NextManager(c, t, calls[c])
  <2>1. /\ Sys(os) /\ calls[c].target.version # 0 /\ CopyOK(os, calls[c].target)
        /\ calls[c].at = "disable"
    BY DEF DisableManager, AppInv, CallOK, Held
  <2>2. Exists(os, h) /\ os.managers[h] \in Managers /\ os.managers[h].id = calls[c].target.id
    BY <1>2, <2>1 DEF Fresh, CopyOK, Exists, Sys, SysType
  <2>3. m \in Managers /\ m.id = os.managers[h].id /\ ~ m.enabled
    BY <2>1, <2>2 DEF Saved, Managers, CopyOK, CopyType
  <2>4. h \in 1 .. os.handle - 1
    BY <2>1, <2>2 DEF Exists, Sys, SysType
  <2> HIDE DEF m
  <2>5. /\ Sys(t) /\ t.handle = os.handle
        /\ DOMAIN t.managers = DOMAIN os.managers \cup {h}
        /\ t.managers[h] = m
        /\ \A k \in DOMAIN os.managers \ {h} :
             /\ t.managers[k].id = os.managers[k].id
             /\ t.managers[k].enabled => os.managers[k].enabled
    BY <2>1, <2>3, <2>4, SaveSys
  <2> HIDE DEF t
  <2>6. Narrows(os, t)
    BY <2>1, <2>2, <2>3, <2>5 DEF Narrows, Exists, Sys, SysType
  <2>7. h \in DOMAIN t.managers => ~ t.managers[h].enabled
    BY <2>3, <2>5
  <2> QED BY <1>2, <2>1, <2>5, <2>6, <2>7, SeenKeeps DEF DisableManager
<1> QED
  BY <1>1, <1>2 DEF DisableManager

\* and uninstall removes one.
LEMMA RemoveManagerKeeps ==
  ASSUME AppInv, NEW c \in Calls, RemoveManager(c)
  PROVE  AppInv'
<1> DEFINE t == RemoveFromPreferences(os, calls[c].target.h)
<1>1. CASE NextManager(c, os, [calls[c] EXCEPT !.failed = TRUE])
  BY <1>1, FailedKeeps DEF RemoveManager
<1>2. CASE NextManager(c, t, calls[c])
  <2>1. Sys(t) /\ Narrows(os, t) /\ DOMAIN t.managers = DOMAIN os.managers \ {calls[c].target.h}
    BY RemoveNarrows DEF AppInv
  <2> HIDE DEF t
  <2> QED BY <1>2, <2>1, SeenKeeps DEF RemoveManager
<1> QED
  BY <1>1, <1>2 DEF RemoveManager

\* Together: no step of the application breaks the invariant.
LEMMA ApplicationKeeps ==
  ASSUME AppInv, Application
  PROVE  AppInv'
<1>1. PICK c \in Calls : \/ \E method \in Methods, id \in Ids : Call(c, method, id)
                         \/ \E onDemand \in BOOLEAN : SaveManager(c, onDemand)
                         \/ Load(c) \/ Retain(c) \/ Awake(c)
                         \/ DisableManager(c) \/ RemoveManager(c)
  BY DEF Application
<1> QED
  BY <1>1, CallKeeps, SaveManagerKeeps, LoadKeeps, RetainKeeps, AwakeKeeps,
     DisableManagerKeeps, RemoveManagerKeeps
-----------------------------------------------------------------------------
(* The steps of the system, and the invariant of the application.          *)

\* The system changes what runs and leaves the managers alone.
LEMMA SystemKeeps ==
  ASSUME AppInv, NEW s, os' = s, UNCHANGED <<calls, off, overlap>>,
         Sys(s), s.managers = os.managers, s.handle = os.handle
  PROVE  AppInv'
<1>1. Narrows(os, s) /\ Sys(os)
  BY NarrowsRefl DEF AppInv
<1>2. \A c \in Calls : CallOK(s, calls[c])
  BY <1>1, CallNarrows DEF AppInv
<1>3. AllOff' /\ NoTwins' /\ Apart' /\ (~overlap => OneInstalls')
  BY DEF AppInv, AllOff, NoTwins, Apart, OneInstalls
<1> QED
  BY <1>2, <1>3 DEF AppInv

\* Nor does a step of the system or of the provider.
LEMMA SystemStepKeeps ==
  ASSUME AppInv,
         Launch \/ StartAnswered \/ StopExtension \/ Down \/ Release \/ OnDemand \/ Provider
  PROVE  AppInv'
<1>1. Sys(os)
  BY DEF AppInv
<1>2. CASE Launch
  <2> DEFINE s == [os EXCEPT !.launched = TRUE]
  <2>1. /\ s.managers = os.managers /\ s.handle = os.handle /\ s.status = os.status
        /\ s.active = os.active /\ s.queued = os.queued /\ s.launched \in BOOLEAN
        /\ s = [managers |-> s.managers, handle |-> s.handle, status |-> s.status,
                active |-> s.active, queued |-> s.queued, launched |-> s.launched]
    <3>1. ASSUME NEW b \in BOOLEAN
          PROVE  [os EXCEPT !.launched = b]
                  = [managers |-> os.managers, handle |-> os.handle, status |-> os.status,
                     active |-> os.active, queued |-> os.queued, launched |-> b]
      BY <1>1 DEF Sys, SysType
    <3>2. PICK b \in BOOLEAN : s = [os EXCEPT !.launched = b]
      OBVIOUS
    <3> HIDE DEF s
    <3> QED BY <3>1, <3>2
  <2>2. os' = s
    BY <1>2 DEF Launch
  <2> HIDE DEF s
  <2>3. Sys(s)
    BY <1>1, <2>1 DEF Sys, SysType, Running, Enabled, Exists
  <2> QED BY <1>2, <2>1, <2>2, <2>3, SystemKeeps DEF Launch
<1>3. ASSUME os' = Disconnected(os), UNCHANGED <<calls, off, overlap>>
      PROVE  AppInv'
  BY <1>1, <1>3, DisconnectedSys, SystemKeeps
<1>4. CASE StartAnswered
  <2>1. CASE os' = [os EXCEPT !.status = "connected"] /\ os.status = "connecting"
             /\ UNCHANGED <<calls, off, overlap>>
    <3> DEFINE s == [os EXCEPT !.status = "connected"]
    <3>1. /\ s.managers = os.managers /\ s.handle = os.handle /\ s.status = "connected"
          /\ s.active = os.active /\ s.queued = os.queued /\ s.launched = os.launched
          /\ s = [managers |-> s.managers, handle |-> s.handle, status |-> s.status,
                  active |-> s.active, queued |-> s.queued, launched |-> s.launched]
      BY <1>1 DEF Sys, SysType
    <3>2. os' = s
      BY <2>1
    <3> HIDE DEF s
    <3>3. SysType(s)
      BY <1>1, <3>1 DEF Sys, SysType, Stati
    <3>4. Running(s)
      BY <1>1, <2>1, <3>1 DEF Sys, Running, Enabled, Exists
    <3> QED BY <2>1, <3>1, <3>2, <3>3, <3>4, SystemKeeps DEF Sys
  <2> QED BY <1>3, <1>4, <2>1 DEF StartAnswered
<1>5. CASE Down
  BY <1>3, <1>5 DEF Down
<1>6. CASE OnDemand
  <2>1. PICK h \in DOMAIN os.managers :
           os.managers[h].enabled /\ os' = [os EXCEPT !.status = "connecting", !.active = h]
    BY <1>6 DEF OnDemand
  <2> DEFINE s == [os EXCEPT !.status = "connecting", !.active = h]
  <2>2. /\ s.managers = os.managers /\ s.handle = os.handle /\ s.status = "connecting"
        /\ s.active = h /\ s.queued = os.queued /\ s.launched = os.launched
        /\ s = [managers |-> s.managers, handle |-> s.handle, status |-> s.status,
                active |-> s.active, queued |-> s.queued, launched |-> s.launched]
    <3>1. s = [os EXCEPT !.status = "connecting", !.active = h]
      OBVIOUS
    <3> HIDE DEF s
    <3> QED BY <1>1, <3>1 DEF Sys, SysType
  <2>3. os' = s
    BY <2>1
  <2> HIDE DEF s
  <2>4. h \in Nat
    BY <1>1 DEF Sys, SysType
  <2>5. SysType(s)
    BY <1>1, <2>2, <2>4 DEF Sys, SysType, Stati
  <2>6. Running(s)
    BY <2>1, <2>2 DEF Running, Enabled, Exists
  <2> QED BY <1>6, <2>2, <2>3, <2>5, <2>6, SystemKeeps DEF OnDemand, Sys
<1>7. CASE StopExtension \/ Release \/ Provider
  BY <1>1, <1>7, SystemKeeps DEF StopExtension, Release, Provider, app
<1> QED
  BY <1>2, <1>4, <1>5, <1>6, <1>7

\* It holds at first, with nothing installed or one manager,
LEMMA AppInit == Init => AppInv
<1> SUFFICES ASSUME Init PROVE AppInv
  OBVIOUS
<1>1. /\ Sys(os)
      /\ \A h \in DOMAIN os.managers : h = 1
  <2>1. CASE os = NewSystem
    <3>1. /\ os.managers = <<>> /\ os.handle = 1 /\ os.status = "disconnected"
          /\ os.active = 0 /\ os.queued = 0 /\ os.launched \in BOOLEAN
          /\ os = [managers |-> os.managers, handle |-> os.handle, status |-> os.status,
                   active |-> os.active, queued |-> os.queued, launched |-> os.launched]
      BY <2>1 DEF NewSystem, NoManager
    <3>2. DOMAIN os.managers = {} /\ os.managers \in [{} -> Managers]
      BY <3>1
    <3>3. SysType(os)
      BY <3>1, <3>2 DEF SysType, Stati
    <3> QED BY <3>1, <3>2, <3>3 DEF Sys, Running
  <2>2. ASSUME NEW id \in Ids, NEW onDemand \in BOOLEAN,
               os = [NewSystem EXCEPT !.handle = 2,
                        !.managers = [h \in {1} |-> [id |-> id, enabled |-> TRUE,
                                                     onDemand |-> onDemand, version |-> 1]]]
        PROVE  Sys(os) /\ \A h \in DOMAIN os.managers : h = 1
    <3> DEFINE managers == [h \in {1} |-> [id |-> id, enabled |-> TRUE,
                                           onDemand |-> onDemand, version |-> 1]]
    <3>1. /\ os.managers = managers /\ os.handle = 2 /\ os.status = "disconnected"
          /\ os.active = 0 /\ os.queued = 0 /\ os.launched \in BOOLEAN
          /\ os = [managers |-> os.managers, handle |-> os.handle, status |-> os.status,
                   active |-> os.active, queued |-> os.queued, launched |-> os.launched]
      BY <2>2 DEF NewSystem, NoManager
    <3>2. DOMAIN managers = {1} /\ managers \in [{1} -> Managers]
      BY DEF Managers
    <3> HIDE DEF managers
    <3>3. SysType(os)
      BY <3>1, <3>2 DEF SysType, Stati
    <3> QED BY <3>1, <3>2, <3>3 DEF Sys, Running
  <2> QED BY <2>1, <2>2 DEF Init
<1>2. calls = [c \in Calls |-> NewCall] /\ off = FALSE /\ overlap = FALSE
  BY DEF Init
<1>3. /\ NewCall \in CallType /\ NewCall.at = "new"
      /\ NewCall.target = NoCopy /\ NewCall.rest = {}
  BY DEF NewCall, CallType, CopyType, NoCopy, NoManager, Methods, Installing
<1>4. CallOK(os, NewCall) /\ ~ IsNew(NewCall)
  BY <1>1, <1>3, NoCopyOK DEF CallOK, Held, IsNew, Sweeps
<1>5. AllOff /\ Apart /\ OneInstalls /\ NoTwins
  BY <1>1, <1>2, <1>3, <1>4 DEF AllOff, Apart, OneInstalls, NoTwins
<1> QED
  BY <1>1, <1>2, <1>3, <1>4, <1>5 DEF AppInv

\* and every step keeps it.
LEMMA AppStep == AppInv /\ [Next]_vars => AppInv'
<1> SUFFICES ASSUME AppInv, [Next]_vars PROVE AppInv'
  OBVIOUS
<1>1. CASE UNCHANGED vars
  BY <1>1, SystemKeeps DEF vars, app, AppInv
<1>2. CASE Next
  BY <1>2, ApplicationKeeps, SystemStepKeeps DEF Next
<1> QED
  BY <1>1, <1>2

\* After a disconnection or an uninstallation that met no failure no tunnel comes
\* up until a manager is enabled again.
THEOREM TurnedOff == Spec => []OffStaysOff
<1>1. AppInv => OffStaysOff
  BY DEF AppInv, AllOff, Sys, SysType, Running, Enabled, Exists, Stati, OffStaysOff
<1> QED
  BY <1>1, AppInit, AppStep, PTL DEF Spec

\* Installations that do not overlap leave one manager for an identifier.
THEOREM OneManager == Spec => []NoTwins
<1>1. AppInv => NoTwins
  BY DEF AppInv
<1> QED
  BY <1>1, AppInit, AppStep, PTL DEF Spec
-----------------------------------------------------------------------------
(* The extension.                                                          *)

ExtType == [alive : BOOLEAN, start : {"none", "pending", "ok", "failed"},
            stop : {"none", "pending", "called"},
            requests : Seq({"start", "stop", "fetch"}), up : BOOLEAN,
            blocks : Seq({"started", "stopped"}), refreshes : Nat,
            tunnelIsStarted : BOOLEAN, dataCount : BOOLEAN, lastError : BOOLEAN]

Occurs(e, s) == \E i \in 1 .. Len(s) : s[i] = e

\* A fetch finds the adapter up only while the tunnel counts as started.
FetchUp(x) == Occurs("fetch", x.requests) /\ x.up => x.tunnelIsStarted

\* The tunnel is about to count as stopped only when the adapter is down.
StoppedDown(x) == Occurs("stopped", x.blocks) => ~x.up

\* The start is the first request to the adapter, before anything has run.
StartFirst(x) ==
    \A i \in 1 .. Len(x.requests) : x.requests[i] = "start" =>
        /\ i = 1 /\ ~x.up /\ x.blocks = <<>> /\ ~x.tunnelIsStarted /\ x.refreshes = 0
        /\ ~Occurs("fetch", x.requests)

ExtOK(x) == x \in ExtType /\ FetchUp(x) /\ StoppedDown(x) /\ StartFirst(x)

\* What is said of the elements of a sequence, after one is appended.
LEMMA AppendOccurs ==
  ASSUME NEW S, NEW s \in Seq(S), NEW e \in S
  PROVE  /\ Append(s, e) \in Seq(S) /\ Len(Append(s, e)) = Len(s) + 1
         /\ \A i \in 1 .. Len(s) + 1 : Append(s, e)[i] = IF i = Len(s) + 1 THEN e ELSE s[i]
         /\ \A d : Occurs(d, Append(s, e)) <=> Occurs(d, s) \/ d = e
  BY DEF Occurs

\* And without its head.
LEMMA TailOccurs ==
  ASSUME NEW S, NEW s \in Seq(S), s # <<>>
  PROVE  /\ Tail(s) \in Seq(S) /\ Len(s) \in Nat \ {0} /\ Len(Tail(s)) = Len(s) - 1
         /\ Head(s) = s[1] /\ Occurs(Head(s), s)
         /\ \A i \in 1 .. Len(s) - 1 : Tail(s)[i] = s[i + 1]
         /\ \A d : Occurs(d, Tail(s)) => Occurs(d, s)
<1>1. /\ Tail(s) \in Seq(S) /\ Len(s) \in Nat \ {0} /\ Len(Tail(s)) = Len(s) - 1
      /\ Head(s) = s[1]
      /\ \A i \in 1 .. Len(s) - 1 : Tail(s)[i] = s[i + 1] /\ i + 1 \in 1 .. Len(s)
  OBVIOUS
<1> QED
  BY <1>1 DEF Occurs

\* A request to the adapter is the last one and changes nothing else.
LEMMA RequestIs ==
  ASSUME NEW x \in ExtType, NEW request \in {"start", "stop", "fetch"}
  PROVE  LET y == Request(x, request)
         IN  /\ y \in ExtType /\ y.requests = Append(x.requests, request)
             /\ y.up = x.up /\ y.blocks = x.blocks /\ y.refreshes = x.refreshes
             /\ y.tunnelIsStarted = x.tunnelIsStarted /\ y.dataCount = x.dataCount
<1>1. Append(x.requests, request) \in Seq({"start", "stop", "fetch"})
  BY AppendOccurs DEF ExtType
<1> QED
  BY <1>1 DEF Request, ExtType

\* A new provider, and one that is released, with the preferences of x.
Provided(x, alive) ==
    [alive |-> alive, start |-> "none", stop |-> "none", requests |-> <<>>,
     up |-> FALSE, blocks |-> <<>>, refreshes |-> 0, tunnelIsStarted |-> FALSE,
     dataCount |-> x.dataCount, lastError |-> x.lastError]

\* NewProvider and Released make these.
LEMMA ProviderMade ==
  ASSUME NEW x
  PROVE  NewProvider(x) = Provided(x, TRUE) /\ Released(x) = Provided(x, FALSE)
<1>1. NewProvider(x) = Provided(x, TRUE)
  BY Zenon DEF NewProvider, Provided
<1>2. ASSUME NEW a, NEW b, NEW y, y = [Provided(x, a) EXCEPT !.alive = b]
      PROVE  y = Provided(x, b)
  BY <1>2 DEF Provided
<1>3. Released(x) = [Provided(x, TRUE) EXCEPT !.alive = FALSE]
  BY <1>1 DEF Released
<1> QED
  BY <1>1, <1>2, <1>3

\* They have nothing under way.
LEMMA NewProviderIs ==
  ASSUME NEW x, x.dataCount \in BOOLEAN, x.lastError \in BOOLEAN, NEW alive \in BOOLEAN,
         NEW y, y = Provided(x, alive)
  PROVE  /\ y \in ExtType /\ y.requests = <<>> /\ y.blocks = <<>> /\ y.refreshes = 0
         /\ ~y.up /\ ~y.tunnelIsStarted /\ y.dataCount = x.dataCount
<1>1. y = [alive |-> alive, start |-> "none", stop |-> "none", requests |-> <<>>,
           up |-> FALSE, blocks |-> <<>>, refreshes |-> 0, tunnelIsStarted |-> FALSE,
           dataCount |-> x.dataCount, lastError |-> x.lastError]
  BY DEF Provided
<1>2. y \in ExtType
  <2>1. y.alive \in BOOLEAN /\ y.dataCount \in BOOLEAN /\ y.lastError \in BOOLEAN
    <3>1. y.alive \in BOOLEAN
      BY <1>1
    <3>2. y.dataCount \in BOOLEAN
      BY <1>1
    <3>3. y.lastError \in BOOLEAN
      BY <1>1
    <3> QED BY <3>1, <3>2, <3>3
  <2>2. y.up \in BOOLEAN /\ y.tunnelIsStarted \in BOOLEAN
    <3>1. y.up = FALSE
      BY <1>1
    <3>2. y.tunnelIsStarted = FALSE
      BY <1>1
    <3> QED BY <3>1, <3>2
  <2>4. /\ <<>> \in Seq({"start", "stop", "fetch"}) /\ <<>> \in Seq({"started", "stopped"})
    OBVIOUS
  <2>5. /\ y.start = "none" /\ y.stop = "none" /\ y.refreshes = 0
        /\ y.requests = <<>> /\ y.blocks = <<>>
    BY <1>1
  <2>3. y = [alive |-> y.alive, start |-> y.start, stop |-> y.stop, requests |-> y.requests,
             up |-> y.up, blocks |-> y.blocks, refreshes |-> y.refreshes,
             tunnelIsStarted |-> y.tunnelIsStarted, dataCount |-> y.dataCount,
             lastError |-> y.lastError]
    BY <1>1
  <2>6. /\ y.start \in {"none", "pending", "ok", "failed"}
        /\ y.stop \in {"none", "pending", "called"}
        /\ y.refreshes \in Nat
    BY <2>5
  <2>7. /\ y.requests \in Seq({"start", "stop", "fetch"})
        /\ y.blocks \in Seq({"started", "stopped"})
    BY <2>4, <2>5, Zenon
  <2> QED BY <2>1, <2>2, <2>3, <2>6, <2>7, Zenon DEF ExtType
<1>3. y.requests = <<>> /\ y.blocks = <<>> /\ y.refreshes = 0
  BY <1>1
<1>4. ~y.up /\ ~y.tunnelIsStarted
  BY <1>1
<1>5. y.dataCount = x.dataCount
  BY <1>1
<1> QED
  BY <1>2, <1>3, <1>4, <1>5

\* Nothing occurs in an empty queue.
LEMMA NothingOccurs ==
  /\ \A e : ~Occurs(e, <<>>)
  /\ Len(<<>>) = 0
  BY DEF Occurs

\* Without a start among the requests there is less to see to.
LEMMA NoStart ==
  ASSUME NEW x \in ExtType, FetchUp(x), StoppedDown(x), ~Occurs("start", x.requests)
  PROVE  ExtOK(x)
  BY DEF ExtOK, StartFirst, Occurs

\* startTunnel of a new provider.
LEMMA StartTunnelKeeps ==
  ASSUME NEW x \in ExtType
  PROVE  LET y == StartTunnel(NewProvider(x))
         IN  ExtOK(y) /\ y.dataCount = x.dataCount
<1> DEFINE n == NewProvider(x)
           p == [n EXCEPT !.start = "pending"]
           y == Request(p, "start")
<1>1. y = StartTunnel(n)
  BY DEF StartTunnel
<1>2. x.dataCount \in BOOLEAN /\ x.lastError \in BOOLEAN
  BY DEF ExtType
<1>3. \E alive \in BOOLEAN : n = Provided(x, alive)
  BY ProviderMade
<1>4. /\ n \in ExtType /\ n.requests = <<>> /\ n.blocks = <<>> /\ n.refreshes = 0
      /\ ~n.up /\ ~n.tunnelIsStarted /\ n.dataCount = x.dataCount
  BY <1>2, <1>3, NewProviderIs
<1> HIDE DEF n
<1>5. /\ p \in ExtType /\ p.requests = <<>> /\ p.blocks = <<>> /\ p.refreshes = 0
      /\ p.up = n.up /\ p.tunnelIsStarted = n.tunnelIsStarted /\ p.dataCount = n.dataCount
  BY <1>4 DEF ExtType
<1> HIDE DEF p
<1>6. /\ y \in ExtType /\ y.requests = Append(<<>>, "start") /\ y.blocks = <<>>
      /\ y.refreshes = 0
      /\ y.up = n.up /\ y.tunnelIsStarted = n.tunnelIsStarted /\ y.dataCount = n.dataCount
  BY <1>5, RequestIs
<1> HIDE DEF y
<1>7. /\ Len(y.requests) = 1 /\ y.requests[1] = "start"
      /\ ~Occurs("fetch", y.requests) /\ ~Occurs("stopped", y.blocks)
  BY <1>6, NothingOccurs DEF Occurs
<1>8. ExtOK(y)
  BY <1>4, <1>6, <1>7 DEF ExtOK, FetchUp, StoppedDown, StartFirst
<1> QED
  BY <1>1, <1>4, <1>6, <1>8 DEF n

\* A provider that is released.
LEMMA ReleasedKeeps ==
  ASSUME NEW x \in ExtType
  PROVE  ExtOK(Released(x)) /\ Released(x).dataCount = x.dataCount
<1> DEFINE y == Released(x)
<1>1. /\ y \in ExtType /\ y.requests = <<>> /\ y.blocks = <<>>
      /\ y.dataCount = x.dataCount
  <2>1. \E alive \in BOOLEAN : y = Provided(x, alive)
    BY ProviderMade
  <2>2. x.dataCount \in BOOLEAN /\ x.lastError \in BOOLEAN
    BY DEF ExtType
  <2> HIDE DEF y
  <2> QED BY <2>1, <2>2, NewProviderIs
<1> HIDE DEF y
<1> QED
  BY <1>1, NothingOccurs, NoStart DEF FetchUp, StoppedDown, y

\* stopTunnel asks the adapter to stop.
LEMMA StopTunnelKeeps ==
  ASSUME NEW x, ExtOK(x)
  PROVE  ExtOK(StopTunnel(x)) /\ StopTunnel(x).dataCount = x.dataCount
<1> DEFINE p == [x EXCEPT !.stop = "pending"]
           y == Request(p, "stop")
<1>1. /\ p \in ExtType /\ p.requests = x.requests /\ p.blocks = x.blocks
      /\ p.refreshes = x.refreshes /\ p.up = x.up /\ p.tunnelIsStarted = x.tunnelIsStarted
      /\ p.dataCount = x.dataCount
  BY DEF ExtOK, ExtType
<1> HIDE DEF p
<1>2. /\ y \in ExtType /\ y.requests = Append(x.requests, "stop") /\ y.blocks = x.blocks
      /\ y.refreshes = x.refreshes /\ y.up = x.up /\ y.tunnelIsStarted = x.tunnelIsStarted
      /\ y.dataCount = x.dataCount
  BY <1>1, RequestIs
<1>3. y = StopTunnel(x)
  BY DEF StopTunnel, p
<1> HIDE DEF y
<1>4. x.requests \in Seq({"start", "stop", "fetch"})
  BY DEF ExtOK, ExtType
<1>5. /\ Len(y.requests) = Len(x.requests) + 1
      /\ \A i \in 1 .. Len(x.requests) + 1 :
            y.requests[i] = IF i = Len(x.requests) + 1 THEN "stop" ELSE x.requests[i]
      /\ Occurs("fetch", y.requests) <=> Occurs("fetch", x.requests)
  BY <1>2, <1>4, AppendOccurs
<1>6. FetchUp(y) /\ StoppedDown(y)
  BY <1>2, <1>5 DEF ExtOK, FetchUp, StoppedDown
<1>7. StartFirst(y)
  BY <1>2, <1>4, <1>5 DEF ExtOK, StartFirst
<1> QED
  BY <1>2, <1>3, <1>6, <1>7 DEF ExtOK

\* refreshDataCount asks for a fetch only while the tunnel counts as started.
LEMMA RefreshKeeps ==
  ASSUME NEW x \in ExtType, FetchUp(x), StoppedDown(x), ~Occurs("start", x.requests)
  PROVE  LET y == RefreshDataCount(x)
         IN  ExtOK(y) /\ (~x.dataCount => ~y.dataCount)
<1> DEFINE p == [x EXCEPT !.refreshes = x.refreshes + 1]
           y == RefreshDataCount(x)
<1>1. /\ p \in ExtType /\ p.requests = x.requests /\ p.blocks = x.blocks
      /\ p.up = x.up /\ p.tunnelIsStarted = x.tunnelIsStarted /\ p.dataCount = x.dataCount
  BY DEF ExtType
<1>2. y = IF x.tunnelIsStarted THEN Request(p, "fetch") ELSE [p EXCEPT !.dataCount = FALSE]
  BY DEF RefreshDataCount
<1> HIDE DEF p, y
<1>3. x.requests \in Seq({"start", "stop", "fetch"})
  BY DEF ExtType
<1>4. CASE x.tunnelIsStarted
  <2>1. /\ y \in ExtType /\ y.requests = Append(x.requests, "fetch") /\ y.blocks = x.blocks
        /\ y.up = x.up /\ y.tunnelIsStarted = x.tunnelIsStarted /\ y.dataCount = x.dataCount
    BY <1>1, <1>2, <1>4, RequestIs
  <2>2. ~Occurs("start", y.requests)
    BY <1>3, <2>1, AppendOccurs
  <2>3. FetchUp(y) /\ StoppedDown(y)
    BY <1>4, <2>1 DEF FetchUp, StoppedDown
  <2> QED BY <2>1, <2>2, <2>3, NoStart DEF y
<1>5. CASE ~x.tunnelIsStarted
  <2>1. /\ y \in ExtType /\ y.requests = x.requests /\ y.blocks = x.blocks
        /\ y.up = x.up /\ y.tunnelIsStarted = x.tunnelIsStarted
    BY <1>1, <1>2, <1>5 DEF ExtType
  <2>2. ~y.dataCount
    BY <1>1, <1>2, <1>5 DEF ExtType
  <2>3. FetchUp(y) /\ StoppedDown(y)
    BY <2>1 DEF FetchUp, StoppedDown
  <2> QED BY <2>1, <2>2, <2>3, NoStart DEF y
<1> QED
  BY <1>4, <1>5

\* The blocks that start and stop hand to the tunnel queue.
LEMMA RunBlockKeeps ==
  ASSUME NEW x, ExtOK(x), x = extension, RunBlock
  PROVE  ExtOK(extension') /\ (~x.dataCount => ~extension'.dataCount)
<1> DEFINE p == [x EXCEPT !.blocks = Tail(x.blocks)]
<1>1. x \in ExtType /\ x.blocks \in Seq({"started", "stopped"}) /\ x.blocks # <<>>
  BY DEF ExtOK, ExtType, RunBlock
<1>2. Tail(x.blocks) \in Seq({"started", "stopped"}) /\ Occurs(Head(x.blocks), x.blocks)
      /\ (Occurs("stopped", Tail(x.blocks)) => Occurs("stopped", x.blocks))
      /\ Head(x.blocks) \in {"started", "stopped"}
  BY <1>1, TailOccurs
<1>3. /\ p \in ExtType /\ p.requests = x.requests /\ p.blocks = Tail(x.blocks)
      /\ p.up = x.up /\ p.tunnelIsStarted = x.tunnelIsStarted /\ p.dataCount = x.dataCount
  BY <1>1, <1>2 DEF ExtType
<1>4. ~Occurs("start", x.requests)
  BY <1>1 DEF ExtOK, StartFirst, Occurs
<1>5. /\ Head(x.blocks) = "started"
         => extension' = RefreshDataCount([p EXCEPT !.tunnelIsStarted = TRUE])
      /\ Head(x.blocks) # "started"
         => extension' = [p EXCEPT !.lastError = FALSE, !.tunnelIsStarted = FALSE,
                                   !.stop = "called"]
  BY DEF RunBlock
<1> HIDE DEF p
<1>6. CASE Head(x.blocks) = "started"
  <2> DEFINE q == [p EXCEPT !.tunnelIsStarted = TRUE]
  <2>1. /\ q \in ExtType /\ q.requests = x.requests /\ q.blocks = Tail(x.blocks)
        /\ q.up = x.up /\ q.dataCount = x.dataCount
    BY <1>3 DEF ExtType
  <2>2. q.tunnelIsStarted
    BY <1>3 DEF ExtType
  <2>3. extension' = RefreshDataCount(q)
    BY <1>5, <1>6
  <2> HIDE DEF q
  <2>4. FetchUp(q) /\ StoppedDown(q)
    BY <1>2, <2>1, <2>2 DEF ExtOK, FetchUp, StoppedDown
  <2> QED BY <1>4, <2>1, <2>3, <2>4, RefreshKeeps
<1>7. CASE Head(x.blocks) # "started"
  <2> DEFINE q == [p EXCEPT !.lastError = FALSE, !.tunnelIsStarted = FALSE, !.stop = "called"]
  <2>1. /\ q \in ExtType /\ q.requests = x.requests /\ q.blocks = Tail(x.blocks)
        /\ q.up = x.up /\ q.dataCount = x.dataCount
    BY <1>3 DEF ExtType
  <2>2. extension' = q
    BY <1>5, <1>7
  <2> HIDE DEF q
  <2>3. ~x.up
    BY <1>2, <1>7 DEF ExtOK, StoppedDown
  <2>4. FetchUp(q) /\ StoppedDown(q)
    BY <2>1, <2>3 DEF FetchUp, StoppedDown
  <2> QED BY <1>4, <2>1, <2>2, <2>4, NoStart
<1> QED
  BY <1>6, <1>7

\* A refresh that was scheduled.
LEMMA RefreshStepKeeps ==
  ASSUME NEW x, ExtOK(x), x = extension, Refresh
  PROVE  ExtOK(extension') /\ (~x.dataCount => ~extension'.dataCount)
<1> DEFINE p == [x EXCEPT !.refreshes = x.refreshes - 1]
<1>1. x \in ExtType /\ x.refreshes \in Nat /\ x.refreshes > 0
  BY DEF ExtOK, ExtType, Refresh
<1>2. ~Occurs("start", x.requests)
  BY <1>1 DEF ExtOK, StartFirst, Occurs
<1>3. /\ p \in ExtType /\ p.requests = x.requests /\ p.blocks = x.blocks
      /\ p.up = x.up /\ p.tunnelIsStarted = x.tunnelIsStarted /\ p.dataCount = x.dataCount
  BY <1>1 DEF ExtType
<1>4. extension' = RefreshDataCount(p)
  BY DEF Refresh
<1> HIDE DEF p
<1>5. FetchUp(p) /\ StoppedDown(p)
  BY <1>3 DEF ExtOK, FetchUp, StoppedDown
<1> QED
  BY <1>2, <1>3, <1>4, <1>5, RefreshKeeps

\* What is left once the adapter has taken a request.
LEMMA TakenIs ==
  ASSUME NEW x, ExtOK(x), x.requests # <<>>
  PROVE  LET y == Taken(x)
         IN  /\ y \in ExtType /\ y.requests = Tail(x.requests) /\ y.blocks = x.blocks
             /\ y.up = x.up /\ y.tunnelIsStarted = x.tunnelIsStarted
             /\ y.dataCount = x.dataCount
             /\ ~Occurs("start", y.requests)
             /\ Occurs("fetch", y.requests) => Occurs("fetch", x.requests)
             /\ Occurs(Head(x.requests), x.requests)
<1>1. x \in ExtType /\ x.requests \in Seq({"start", "stop", "fetch"})
  BY DEF ExtOK, ExtType
<1>2. /\ Tail(x.requests) \in Seq({"start", "stop", "fetch"})
      /\ Len(x.requests) \in Nat \ {0} /\ Len(Tail(x.requests)) = Len(x.requests) - 1
      /\ \A i \in 1 .. Len(x.requests) - 1 : Tail(x.requests)[i] = x.requests[i + 1]
      /\ Occurs("fetch", Tail(x.requests)) => Occurs("fetch", x.requests)
      /\ Occurs(Head(x.requests), x.requests)
  BY <1>1, TailOccurs
<1>3. ~Occurs("start", Tail(x.requests))
  BY <1>2 DEF ExtOK, StartFirst, Occurs
<1> QED
  BY <1>1, <1>2, <1>3 DEF Taken, ExtType

\* The adapter serves a request; only a fetch of a tunnel that counts as started
\* brings a count.
LEMMA AdapterKeeps ==
  ASSUME NEW x, ExtOK(x), x = extension, Adapter
  PROVE  /\ ExtOK(extension')
         /\ ~x.dataCount /\ ~x.tunnelIsStarted => ~extension'.dataCount
<1> DEFINE t == Taken(x)
<1>1. x.requests # <<>>
  BY DEF Adapter, AdapterStarts, AdapterStops, AdapterFetches, Requested
<1>2. /\ t \in ExtType /\ t.requests = Tail(x.requests) /\ t.blocks = x.blocks
      /\ t.up = x.up /\ t.tunnelIsStarted = x.tunnelIsStarted
      /\ t.dataCount = x.dataCount
      /\ ~Occurs("start", t.requests)
      /\ Occurs("fetch", t.requests) => Occurs("fetch", x.requests)
      /\ Occurs(Head(x.requests), x.requests)
  BY <1>1, TakenIs
<1> HIDE DEF t
<1>3. CASE AdapterStarts
  <2>1. ~x.up /\ x.blocks = <<>> /\ ~Occurs("fetch", x.requests)
    BY <1>2, <1>3 DEF AdapterStarts, Requested, ExtOK, StartFirst, Occurs
  <2>2. CASE extension' = [t EXCEPT !.lastError = TRUE, !.start = "failed"]
    <3> DEFINE q == [t EXCEPT !.lastError = TRUE, !.start = "failed"]
    <3>1. /\ q \in ExtType /\ q.requests = t.requests /\ q.blocks = t.blocks
          /\ q.up = t.up /\ q.dataCount = t.dataCount
      BY <1>2 DEF ExtType
    <3> HIDE DEF q
    <3>2. FetchUp(q) /\ StoppedDown(q)
      BY <1>2, <2>1, <3>1 DEF FetchUp, StoppedDown
    <3> QED BY <1>2, <2>2, <3>1, <3>2, NoStart DEF q
  <2>3. CASE extension' = Async([t EXCEPT !.up = TRUE, !.lastError = FALSE, !.start = "ok"],
                                "started")
    <3> DEFINE p == [t EXCEPT !.up = TRUE, !.lastError = FALSE, !.start = "ok"]
               blocks == Append(p.blocks, "started")
               q == [p EXCEPT !.blocks = blocks]
    <3>1. /\ p \in ExtType /\ p.requests = t.requests /\ p.blocks = t.blocks
          /\ p.dataCount = t.dataCount
      BY <1>2 DEF ExtType
    <3>2. extension' = q
      BY <2>3 DEF Async
    <3> HIDE DEF p
    <3>3. blocks \in Seq({"started", "stopped"}) /\ ~Occurs("stopped", blocks)
      <4>1. p.blocks = <<>> /\ <<>> \in Seq({"started", "stopped"})
        BY <1>2, <2>1, <3>1
      <4>2. ~Occurs("stopped", <<>>)
        BY NothingOccurs
      <4> DEFINE S == {"started", "stopped"}
      <4>3. "started" \in S /\ "stopped" # "started"
        OBVIOUS
      <4> HIDE DEF S
      <4>4. /\ Append(<<>>, "started") \in Seq(S)
            /\ \A d : Occurs(d, Append(<<>>, "started")) <=> Occurs(d, <<>>) \/ d = "started"
        BY <4>1, <4>3, AppendOccurs DEF S
      <4> QED BY <4>1, <4>2, <4>3, <4>4 DEF S
    <3> HIDE DEF blocks
    <3>4. /\ q \in ExtType /\ q.requests = p.requests /\ q.blocks = blocks
          /\ q.dataCount = p.dataCount
      BY <3>1, <3>3 DEF ExtType
    <3> HIDE DEF q
    <3>5. FetchUp(q) /\ StoppedDown(q)
      BY <1>2, <2>1, <3>1, <3>3, <3>4 DEF FetchUp, StoppedDown
    <3> QED BY <1>2, <3>1, <3>2, <3>4, <3>5, NoStart
  <2> QED BY <1>3, <2>2, <2>3 DEF AdapterStarts, t
<1>4. CASE AdapterStops
  <2> DEFINE p == [t EXCEPT !.up = FALSE]
             blocks == Append(p.blocks, "stopped")
             q == [p EXCEPT !.blocks = blocks]
  <2>1. /\ p \in ExtType /\ p.requests = t.requests /\ p.blocks = t.blocks
        /\ p.dataCount = t.dataCount
    BY <1>2 DEF ExtType
  <2>2. ~p.up
    BY <1>2 DEF ExtType
  <2>3. extension' = q
    BY <1>4 DEF AdapterStops, Async, t
  <2> HIDE DEF p
  <2>4. blocks \in Seq({"started", "stopped"})
    BY <2>1, AppendOccurs DEF ExtType
  <2> HIDE DEF blocks
  <2>5. /\ q \in ExtType /\ q.requests = p.requests /\ q.up = p.up
        /\ q.dataCount = p.dataCount
    BY <2>1, <2>4 DEF ExtType
  <2> HIDE DEF q
  <2>6. FetchUp(q) /\ StoppedDown(q)
    BY <2>2, <2>5 DEF FetchUp, StoppedDown
  <2> QED BY <1>2, <2>1, <2>3, <2>5, <2>6, NoStart
<1>5. CASE AdapterFetches
  <2>1. FetchUp(t) /\ StoppedDown(t)
    BY <1>2 DEF ExtOK, FetchUp, StoppedDown
  <2>2. CASE extension' = t
    BY <1>2, <2>1, <2>2, NoStart
  <2>3. CASE x.up /\ extension' = [t EXCEPT !.dataCount = TRUE]
    <3> DEFINE q == [t EXCEPT !.dataCount = TRUE]
    <3>1. /\ q \in ExtType /\ q.requests = t.requests /\ q.blocks = t.blocks
          /\ q.up = t.up /\ q.tunnelIsStarted = t.tunnelIsStarted
      BY <1>2 DEF ExtType
    <3> HIDE DEF q
    <3>2. FetchUp(q) /\ StoppedDown(q)
      BY <2>1, <3>1 DEF FetchUp, StoppedDown
    <3>3. x.tunnelIsStarted
      BY <1>2, <1>5, <2>3 DEF AdapterFetches, Requested, ExtOK, FetchUp
    <3> QED BY <1>2, <2>3, <3>1, <3>2, <3>3, NoStart DEF q
  <2> QED BY <1>5, <2>2, <2>3 DEF AdapterFetches, t
<1> QED
  BY <1>3, <1>4, <1>5 DEF Adapter

\* Every step keeps the invariant of the extension, and brings no count while the
\* tunnel is stopped.
LEMMA ExtStep ==
  ASSUME ExtOK(extension), [Next]_vars
  PROVE  /\ ExtOK(extension')
         /\ ~extension.dataCount /\ ~extension.tunnelIsStarted => ~extension'.dataCount
<1>1. extension \in ExtType
  BY DEF ExtOK
<1>2. CASE UNCHANGED extension
  BY <1>2
<1>3. CASE Launch
  <2>1. extension' = StartTunnel(NewProvider(extension))
    BY <1>3 DEF Launch
  <2> QED BY <1>1, <2>1, StartTunnelKeeps
<1>4. CASE StopExtension
  <2>1. extension' = StopTunnel(extension)
    BY <1>4 DEF StopExtension
  <2> QED BY <2>1, StopTunnelKeeps
<1>5. CASE Release
  <2>1. extension' = Released(extension)
    BY <1>5 DEF Release
  <2> QED BY <1>1, <2>1, ReleasedKeeps
<1>6. CASE Provider
  BY <1>6, RefreshStepKeeps, RunBlockKeeps, AdapterKeeps DEF Provider
<1> QED
  BY <1>2, <1>3, <1>4, <1>5, <1>6 DEF Next, StartAnswered, Down, OnDemand, vars

\* At first there is no provider.
LEMMA ExtInit == Init => ExtOK(extension)
<1> SUFFICES ASSUME Init PROVE ExtOK(extension)
  OBVIOUS
<1> DEFINE n == [dataCount |-> FALSE, lastError |-> FALSE]
           y == NoProvider
<1>1. NoProvider = Released(n)
  BY DEF NoProvider, Released
<1>2. n.dataCount \in BOOLEAN /\ n.lastError \in BOOLEAN
  OBVIOUS
<1>3. \E alive \in BOOLEAN : y = Provided(n, alive)
  BY <1>1, ProviderMade
<1> HIDE DEF n, y
<1>4. y \in ExtType /\ y.requests = <<>> /\ y.blocks = <<>>
  BY <1>2, <1>3, NewProviderIs
<1>5. FetchUp(y) /\ StoppedDown(y) /\ ~Occurs("start", y.requests)
  BY <1>4, NothingOccurs DEF FetchUp, StoppedDown
<1>6. extension = y
  BY DEF Init, y
<1> QED
  BY <1>4, <1>5, <1>6, NoStart

\* A count that was cleared stays away while the tunnel is stopped: no fetch that
\* was under way brings it back.
THEOREM CountStaysAway == Spec => NoGhostCount
<1> DEFINE I == ExtOK(extension)
<1>1. Init => I
  BY ExtInit
<1>2. I /\ [Next]_vars
        => I' /\ [~extension.dataCount /\ ~extension.tunnelIsStarted => ~extension'.dataCount]_vars
  BY ExtStep
<1> HIDE DEF I
<1> QED
  BY <1>1, <1>2, PTL DEF Spec, NoGhostCount
=============================================================================
