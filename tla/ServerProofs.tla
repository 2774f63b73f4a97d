---------------------------- MODULE ServerProofs ----------------------------
(***************************************************************************)
(* What holds of ReportServer for any number of connections and edits.     *)
(***************************************************************************)
EXTENDS ReportServer, TLAPS

Processes == {"starting", "up"} \cup Ended
Listeners == {None, "new", "set", "serving", "closed"}
Notifiers == {None, "new", "waiting", "draining", "ended"}
RequestPcs == {"none", "error", "answered", "cut"} \cup Working

RequestType == [pc : RequestPcs, tpl : Nat, began : Nat, alone : BOOLEAN]

ServerType ==
    /\ srv \in [process : Processes, dev : BOOLEAN, listener : Listeners,
                notifier : Notifiers, signalled : BOOLEAN, broken : BOOLEAN, late : BOOLEAN]
    /\ tplFile \in [ver : Nat, ok : BOOLEAN]
    /\ tplMap \in Nat
    /\ handler \in [Requests -> RequestType]

(***************************************************************************)
(* The end of the process.  How far the shutdown has come says that a      *)
(* signal was sent, and only in development mode a request is near the map *)
(* to write it.                                                            *)
(***************************************************************************)
ShutdownWasAsked ==
    srv.notifier \in {"draining", "ended"} \/ srv.listener = "closed" => srv.signalled
OnlyDevelopersLoad ==
    \A r \in Requests : handler[r].pc \in {"parse", "store"} => srv.dev

EndInv == ShutdownWasAsked /\ OnlyDevelopersLoad /\ EndsOnDemand

(***************************************************************************)
(* The templates.  A request that was never joined by another is the only  *)
(* one in flight, so what it has stored is what it fetches.                *)
(***************************************************************************)
AloneInFlight ==
    \A r, s \in InFlight : handler[r].alone => s = r

Fresh(r) ==
    /\ handler[r].pc \in Working => handler[r].began <= tplFile.ver
    /\ handler[r].pc \in {"store", "execute", "answered"} => handler[r].tpl >= handler[r].began
    /\ handler[r].pc \in {"query", "fetch"} => tplMap >= handler[r].began

FreshInv ==
    /\ AloneInFlight
    /\ \A r \in Requests : srv.dev /\ handler[r].alone => Fresh(r)

Inv == ServerType /\ EndInv /\ FreshInv

LEMMA InitInv == Init => Inv
BY DEF Init, Inv, ServerType, EndInv, FreshInv, ShutdownWasAsked, OnlyDevelopersLoad,
       EndsOnDemand, AloneInFlight, InFlight, Fresh, NoRequest, Processes, Listeners,
       Notifiers, RequestType, RequestPcs, Working, Ended, None

\* A step of the process and its goroutines: no request moves.
LEMMA ServerStep ==
    ASSUME Inv, NEW next, Server(next), next.dev = srv.dev,
           next \in [process : Processes, dev : BOOLEAN, listener : Listeners,
                     notifier : Notifiers, signalled : BOOLEAN, broken : BOOLEAN,
                     late : BOOLEAN],
           next.notifier \in {"draining", "ended"} \/ next.listener = "closed" =>
               next.signalled,
           next.process \in Ended => next.signalled \/ next.broken
    PROVE  Inv'
BY DEF Inv, ServerType, Server, EndInv, FreshInv, ShutdownWasAsked, OnlyDevelopersLoad,
       EndsOnDemand, AloneInFlight, InFlight, Fresh

\* The end of the process: the requests in flight are cut off.
LEMMA EndStep ==
    ASSUME Inv, NEW how \in Ended, End(how), srv.signalled \/ (srv.dev /\ how = "fatal")
    PROVE  Inv'
<1> DEFINE now(r) == IF r \in InFlight THEN [handler[r] EXCEPT !.pc = "cut"] ELSE handler[r]
<1>1. srv' = [srv EXCEPT !.process = how] /\ UNCHANGED <<tplFile, tplMap>>
  BY DEF End
<1>2. srv'.process = how /\ UNCHANGED <<srv.dev, srv.listener, srv.notifier, srv.signalled>>
  BY <1>1 DEF Inv, ServerType
<1>3. \A r \in Requests : handler'[r] = now(r)
  BY DEF End
<1>4. \A r \in Requests :
         /\ handler'[r].pc = IF r \in InFlight THEN "cut" ELSE handler[r].pc
         /\ UNCHANGED <<handler[r].tpl, handler[r].began, handler[r].alone>>
  BY <1>3 DEF Inv, ServerType, RequestType
<1>5. ServerType'
  <2>1. \A r \in Requests : now(r) \in RequestType
    BY DEF Inv, ServerType, RequestType, RequestPcs
  <2> QED BY <1>1, <2>1 DEF Inv, ServerType, End, Processes
<1>6. InFlight' = {}
  BY <1>4 DEF InFlight, Working
<1>7. EndInv'
  BY <1>2, <1>4 DEF Inv, EndInv, ShutdownWasAsked, OnlyDevelopersLoad, EndsOnDemand
<1>8. FreshInv'
  BY <1>1, <1>2, <1>4, <1>6
     DEF Inv, FreshInv, AloneInFlight, InFlight, Fresh, Working
<1> QED BY <1>5, <1>7, <1>8 DEF Inv

LEMMA GoroutinesKeep ==
    ASSUME Inv, Goroutines \/ ListenFails \/ Signal
    PROVE  Inv'
<1> USE DEF Inv, ServerType, EndInv, ShutdownWasAsked, Up, Processes, Listeners, Notifiers, Ended, Working
<1>1. CASE StartServer
  BY <1>1 DEF StartServer, FreshInv, OnlyDevelopersLoad, EndsOnDemand, AloneInFlight,
              InFlight, Fresh
<1>2. CASE StartFails
  BY <1>2, ServerStep DEF StartFails
<1>3. CASE MainReturns
  BY <1>3, EndStep DEF MainReturns
<1>4. CASE SetServer \/ Listen
  BY <1>4, ServerStep DEF SetServer, Listen
<1>5. CASE ServerClosed
  BY <1>5, EndStep DEF ServerClosed
<1>6. CASE NotNotified
  BY <1>6, EndStep DEF NotNotified
<1>7. CASE Notify
  BY <1>7, ServerStep DEF Notify
<1>8. CASE NoServerYet
  BY <1>8, EndStep DEF NoServerYet, Told
<1>9. CASE ShutDown
  BY <1>9, ServerStep DEF ShutDown, Told
<1>10. CASE Drained \/ TimeOut
  BY <1>10, ServerStep DEF Drained, TimeOut
<1>11. CASE ListenFails
  BY <1>11, ServerStep DEF ListenFails
<1>12. CASE Signal
  BY <1>12, ServerStep DEF Signal
<1> QED BY <1>1, <1>2, <1>3, <1>4, <1>5, <1>6, <1>7, <1>8, <1>9, <1>10, <1>11, <1>12
        DEF Goroutines

\* A step of one request.  The others in flight were joined by it, so nothing
\* is claimed of them.
LEMMA HandleStep ==
    ASSUME Inv, NEW r \in InFlight, NEW next \in RequestType, Handle(r, next),
           tplMap' \in Nat, next.alone = handler[r].alone,
           next.pc # "parse", next.pc = "store" => srv.dev,
           srv.dev /\ handler[r].alone => Fresh(r)'
    PROVE  Inv'
<1> USE DEF Inv, ServerType
<1>1. r \in Requests /\ handler[r].pc \in Working
  BY DEF InFlight
<1>2. handler'[r] = next /\ \A s \in Requests \ {r} : handler'[s] = handler[s]
  BY <1>1 DEF Handle
<1>3. ServerType' /\ UNCHANGED <<srv, tplFile>>
  BY <1>1 DEF Handle
<1>4. EndInv'
  BY <1>1, <1>2, <1>3 DEF EndInv, ShutdownWasAsked, OnlyDevelopersLoad, EndsOnDemand
<1>5. AloneInFlight'
  BY <1>1, <1>2 DEF FreshInv, AloneInFlight, InFlight
<1>6. ASSUME NEW s \in Requests \ {r}, srv.dev, handler[s].alone
      PROVE  Fresh(s)'
  <2>1. handler[s].pc \notin Working
    BY <1>6 DEF FreshInv, AloneInFlight, InFlight
  <2> QED BY <1>2, <1>6, <2>1 DEF FreshInv, Fresh, Working
<1> QED BY <1>1, <1>2, <1>3, <1>4, <1>5, <1>6 DEF FreshInv

LEMMA ArriveStep ==
    ASSUME Inv, NEW r \in Requests, Accept(r)
    PROVE  Inv'
<1> USE DEF Inv, ServerType
<1> DEFINE pc == IF srv.dev THEN "parse" ELSE "query"
           new == [pc |-> pc, tpl |-> 0, began |-> tplFile.ver, alone |-> InFlight = {}]
           now(s) == IF s = r THEN new
                     ELSE IF s \in InFlight THEN [handler[s] EXCEPT !.alone = FALSE]
                     ELSE handler[s]
<1>1. handler' = [s \in Requests |-> now(s)] /\ UNCHANGED <<srv, tplFile, tplMap>>
  BY DEF Accept, Arrive
<1>2. r \notin InFlight
  BY DEF Accept, Arrive
<1>3. new \in RequestType
  BY DEF RequestType, RequestPcs, Working
<1>4. \A s \in Requests : now(s) \in RequestType
  BY <1>3 DEF RequestType
<1>5. ServerType'
  BY <1>1, <1>4
<1>6. /\ handler'[r] = new
      /\ \A s \in Requests \ {r} :
            /\ UNCHANGED <<handler[s].pc, handler[s].tpl, handler[s].began>>
            /\ handler'[s].alone = (handler[s].alone /\ s \notin InFlight)
  BY <1>1, <1>4 DEF RequestType
<1>7. InFlight' = InFlight \cup {r}
  BY <1>6 DEF InFlight, Working
<1>8. EndInv'
  BY <1>1, <1>6 DEF EndInv, ShutdownWasAsked, OnlyDevelopersLoad, EndsOnDemand
<1>9. AloneInFlight'
  <2>1. handler'[r].alone => InFlight = {}
    <3>1. new.alone = (InFlight = {})
      OBVIOUS
    <3> HIDE DEF new
    <3> QED BY <1>6, <3>1, Zenon
  <2>2. \A s \in InFlight : ~ handler'[s].alone
    BY <1>2, <1>6 DEF InFlight
  <2> QED BY <1>7, <2>1, <2>2 DEF AloneInFlight
<1>10. ASSUME NEW s \in Requests, srv.dev, handler'[s].alone
       PROVE  Fresh(s)'
  <2>1. CASE s = r
    BY <1>1, <1>6, <1>10, <2>1 DEF Fresh, Working
  <2>2. CASE s # r
    BY <1>1, <1>6, <1>10, <2>2 DEF FreshInv, Fresh
  <2> QED BY <2>1, <2>2
<1> QED BY <1>1, <1>5, <1>8, <1>9, <1>10 DEF FreshInv

LEMMA HandlersKeep ==
    ASSUME Inv, Handlers
    PROVE  Inv'
<1> USE DEF Inv, ServerType
<1>1. ASSUME NEW r \in Requests,
             ParseTemplate(r) \/ StoreTemplate(r) \/ AskDatabase(r) \/ FetchTemplate(r)
                \/ Execute(r)
      PROVE  Inv'
  <2>1. r \in InFlight
    BY <1>1 DEF ParseTemplate, StoreTemplate, AskDatabase, FetchTemplate, Execute, At,
                InFlight, Working
  <2>2. srv.dev /\ handler[r].alone => Fresh(r)
    BY DEF FreshInv
  <2>3. ASSUME NEW pc \in RequestPcs, NEW tpl \in Nat
        PROVE  /\ [handler[r] EXCEPT !.pc = pc, !.tpl = tpl] \in RequestType
               /\ [handler[r] EXCEPT !.pc = pc] \in RequestType
    BY DEF RequestType
  <2>4. {"store", "error", "query", "fetch", "execute", "answered"} \subseteq RequestPcs
    BY DEF RequestPcs, Working
  <2>5. CASE ParseTemplate(r)
    <3> DEFINE next == IF tplFile.ok
                       THEN [handler[r] EXCEPT !.pc = "store", !.tpl = tplFile.ver]
                       ELSE [handler[r] EXCEPT !.pc = "error"]
    <3>1. Handle(r, next) /\ handler[r].pc = "parse" /\ UNCHANGED tplMap
      BY <2>5 DEF ParseTemplate, At
    <3>2. next \in RequestType
      BY <2>3, <2>4
    <3>3. handler'[r] = next /\ UNCHANGED tplFile
      BY <3>1 DEF Handle
    <3>4. srv.dev
      BY <3>1 DEF EndInv, OnlyDevelopersLoad
    <3>5. next.alone = handler[r].alone /\ next.began = handler[r].began
          /\ next.pc = (IF tplFile.ok THEN "store" ELSE "error")
          /\ (tplFile.ok => next.tpl = tplFile.ver)
      BY DEF RequestType
    <3>6. srv.dev /\ handler[r].alone => Fresh(r)'
      BY <2>2, <3>1, <3>3, <3>5 DEF Fresh, Working
    <3> HIDE DEF next
    <3> QED BY <2>1, <3>1, <3>2, <3>4, <3>5, <3>6, HandleStep
  <2>6. CASE StoreTemplate(r)
    <3> DEFINE next == [handler[r] EXCEPT !.pc = "query"]
    <3>1. Handle(r, next) /\ handler[r].pc = "store" /\ tplMap' = handler[r].tpl
      BY <2>6 DEF StoreTemplate, At
    <3>2. next \in RequestType
      BY <2>3, <2>4
    <3>3. handler'[r] = next /\ UNCHANGED tplFile
      BY <3>1 DEF Handle
    <3>4. next.alone = handler[r].alone /\ next.began = handler[r].began /\ next.pc = "query"
      BY DEF RequestType
    <3>5. srv.dev /\ handler[r].alone => Fresh(r)'
      BY <2>2, <3>1, <3>3, <3>4 DEF Fresh, Working
    <3>6. tplMap' \in Nat
      BY <3>1 DEF RequestType
    <3> HIDE DEF next
    <3> QED BY <2>1, <3>1, <3>2, <3>4, <3>5, <3>6, HandleStep
  <2>7. CASE AskDatabase(r)
    <3>1. PICK pc \in {"fetch", "error"} : Handle(r, [handler[r] EXCEPT !.pc = pc])
      BY <2>7 DEF AskDatabase
    <3> DEFINE next == [handler[r] EXCEPT !.pc = pc]
    <3>2. handler[r].pc = "query" /\ UNCHANGED tplMap
      BY <2>7 DEF AskDatabase, At
    <3>3. next \in RequestType
      BY <2>3, <2>4
    <3>4. handler'[r] = next /\ UNCHANGED tplFile
      BY <3>1 DEF Handle
    <3>5. next.alone = handler[r].alone /\ next.began = handler[r].began /\ next.pc = pc
      BY DEF RequestType
    <3>6. srv.dev /\ handler[r].alone => Fresh(r)'
      BY <2>2, <3>2, <3>4, <3>5 DEF Fresh, Working
    <3> HIDE DEF next
    <3> QED BY <2>1, <3>1, <3>2, <3>3, <3>5, <3>6, HandleStep DEF next
  <2>8. CASE FetchTemplate(r)
    <3> DEFINE next == [handler[r] EXCEPT !.pc = "execute", !.tpl = tplMap]
    <3>1. Handle(r, next) /\ handler[r].pc = "fetch" /\ UNCHANGED tplMap
      BY <2>8 DEF FetchTemplate, At
    <3>2. next \in RequestType
      BY <2>3, <2>4
    <3>3. handler'[r] = next /\ UNCHANGED tplFile
      BY <3>1 DEF Handle
    <3>4. next.alone = handler[r].alone /\ next.began = handler[r].began
          /\ next.pc = "execute" /\ next.tpl = tplMap
      BY DEF RequestType
    <3>5. srv.dev /\ handler[r].alone => Fresh(r)'
      BY <2>2, <3>1, <3>3, <3>4 DEF Fresh, Working
    <3> HIDE DEF next
    <3> QED BY <2>1, <3>1, <3>2, <3>4, <3>5, HandleStep
  <2>9. CASE Execute(r)
    <3>0. PICK pc \in {"answered", "error"} : Handle(r, [handler[r] EXCEPT !.pc = pc])
      BY <2>9 DEF Execute
    <3> DEFINE next == [handler[r] EXCEPT !.pc = pc]
    <3>1. Handle(r, next) /\ handler[r].pc = "execute" /\ UNCHANGED tplMap
      BY <2>9, <3>0 DEF Execute, At
    <3>2. next \in RequestType
      BY <2>3, <2>4
    <3>3. handler'[r] = next /\ UNCHANGED tplFile
      BY <3>1 DEF Handle
    <3>4. next.alone = handler[r].alone /\ next.began = handler[r].began
          /\ next.pc \in {"answered", "error"} /\ next.tpl = handler[r].tpl
      BY DEF RequestType
    <3>5. srv.dev /\ handler[r].alone => Fresh(r)'
      BY <2>2, <3>1, <3>3, <3>4 DEF Fresh, Working
    <3> HIDE DEF next
    <3> QED BY <2>1, <3>1, <3>2, <3>4, <3>5, HandleStep
  <2> QED BY <1>1, <2>5, <2>6, <2>7, <2>8, <2>9
<1>2. ASSUME NEW r \in Requests, NEW s \in Requests, Race(r, s)
      PROVE  Inv'
  <2>1. srv.dev /\ End("fatal")
    BY <1>2 DEF Race, At, EndInv, OnlyDevelopersLoad
  <2> QED BY <2>1, EndStep DEF Ended
<1> QED BY <1>1, <1>2, ArriveStep DEF Handlers

LEMMA EditKeeps ==
    ASSUME Inv, Edit
    PROVE  Inv'
<1>1. /\ tplFile' \in [ver : Nat, ok : BOOLEAN] /\ tplFile'.ver >= tplFile.ver
      /\ UNCHANGED <<srv, tplMap, handler>>
  BY DEF Edit, Inv, ServerType
<1>2. \A r \in Requests : Fresh(r) => Fresh(r)'
  BY <1>1 DEF Inv, ServerType, RequestType, Fresh
<1> QED BY <1>1, <1>2 DEF Inv, ServerType, EndInv, FreshInv, ShutdownWasAsked,
       OnlyDevelopersLoad, EndsOnDemand, AloneInFlight, InFlight

LEMMA NextInv == Inv /\ [Next]_vars => Inv'
<1> SUFFICES ASSUME Inv, [Next]_vars PROVE Inv'
  OBVIOUS
<1>1. CASE UNCHANGED vars
  BY <1>1 DEF vars, Inv, ServerType, EndInv, FreshInv, ShutdownWasAsked, OnlyDevelopersLoad,
              EndsOnDemand, AloneInFlight, InFlight, Fresh
<1> QED BY <1>1, GoroutinesKeep, HandlersKeep, EditKeeps DEF Next

\* However many visitors there are and whatever they ask for while others are
\* answered: the process ends because of a signal, because it could not start
\* or listen, or in development mode because of the map of templates.
THEOREM EndCorrect == Spec => []EndsOnDemand
<1>1. Inv => EndsOnDemand
  BY DEF Inv, EndInv
<1> QED BY <1>1, InitInv, NextInv, PTL DEF Spec

\* A developer who is alone sees the templates as they were saved before the
\* page was asked for, after any number of edits, errors and visitors.
THEOREM FreshCorrect == Spec => []AloneIsFresh
<1>1. Inv => AloneIsFresh
  BY DEF Inv, FreshInv, AloneIsFresh, Fresh
<1> QED BY <1>1, InitInv, NextInv, PTL DEF Spec
=============================================================================
