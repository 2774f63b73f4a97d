---------------------------- MODULE ReportServer ----------------------------
(***************************************************************************)
(* The process of the report server (cmd/report, pkg/report/server*.go):   *)
(* main, the goroutine that listens, the one that waits for a signal and   *)
(* one for each request that is answered.  What the pages say is in        *)
(* Statistics; here are the templates they are made with, which in         *)
(* development mode every request loads anew, and the end of the process.  *)
(***************************************************************************)
EXTENDS Integers

CONSTANTS
    Requests,  \* the connections of the visitors
    MaxEdits   \* bound: how often the template file is edited

ASSUME EditsAssumption == MaxEdits \in Nat

None == "none"

VARIABLES
    srv,      \* the process and its goroutines
    tplFile,  \* the template file: its version, and whether it can be parsed
    tplMap,   \* s.templates: the version that was stored last
    handler   \* handler[r]: what is done for the connection r

vars == <<srv, tplFile, tplMap, handler>>

Ended == {"stopped", "died", "panicked", "killed", "fatal"}

(***************************************************************************)
(* A request.  `tpl` is the version the handler holds, `began` the version *)
(* of the file when it began, `alone` that no other request was answered   *)
(* at the same time.                                                       *)
(***************************************************************************)
NoRequest == [pc |-> "none", tpl |-> 0, began |-> 0, alone |-> TRUE]
Working == {"parse", "store", "query", "fetch", "execute"}
InFlight == {r \in Requests : handler[r].pc \in Working}

Init ==
    /\ \E dev \in BOOLEAN :
          srv = [process |-> "starting",  \* or "up", or how it ended
                 dev |-> dev,             \* the flag -dev
                 listener |-> None,       \* the goroutine in ListenAndServe
                 notifier |-> None,       \* the goroutine that waits for a signal
                 signalled |-> FALSE,     \* an interrupt or a TERM was sent
                 broken |-> FALSE,        \* history: it could not start or listen
                 late |-> FALSE]          \* history: Shutdown ran out of time
    /\ tplFile = [ver |-> 1, ok |-> TRUE]
    /\ tplMap = 0
    /\ handler = [r \in Requests |-> NoRequest]

Up == srv.process = "up"
Server(next) == srv' = next /\ UNCHANGED <<tplFile, tplMap, handler>>

\* The end of the process cuts every request off.
End(how) ==
    /\ srv' = [srv EXCEPT !.process = how]
    /\ handler' = [r \in Requests |->
                     IF r \in InFlight THEN [handler[r] EXCEPT !.pc = "cut"] ELSE handler[r]]
    /\ UNCHANGED <<tplFile, tplMap>>

(***************************************************************************)
(* main: configuration, tunnels, database, NewServer with the first        *)
(* InitTemplates; then the two goroutines.                                 *)
(***************************************************************************)
StartServer ==
    /\ srv.process = "starting"
    /\ srv' = [srv EXCEPT !.process = "up", !.listener = "new", !.notifier = "new"]
    /\ tplMap' = tplFile.ver
    /\ UNCHANGED <<tplFile, handler>>

\* Any of it fails.
StartFails ==
    /\ srv.process = "starting"
    /\ Server([srv EXCEPT !.process = "panicked", !.broken = TRUE])

\* <-end
MainReturns == Up /\ srv.notifier = "ended" /\ End("stopped")

(***************************************************************************)
(* The listening goroutine.  ListenAndServe returns when Shutdown is       *)
(* called, at once and with an error, and every error is log.Fatalf.       *)
(***************************************************************************)
SetServer == Up /\ srv.listener = "new" /\ Server([srv EXCEPT !.listener = "set"])
Listen == Up /\ srv.listener = "set" /\ Server([srv EXCEPT !.listener = "serving"])

\* The certificate cannot be read, the port is taken.
ListenFails ==
    /\ Up
    /\ srv.listener \in {"new", "set"}
    /\ Server([srv EXCEPT !.process = "died", !.broken = TRUE])

ServerClosed == Up /\ srv.listener = "closed" /\ End("died")

(***************************************************************************)
(* The waiting goroutine.                                                  *)
(***************************************************************************)
Signal ==
    /\ srv.process \in {"starting", "up"}
    /\ Server([srv EXCEPT !.signalled = TRUE])

\* A signal nobody has asked to be notified of ends the process.
NotNotified ==
    /\ srv.signalled
    /\ srv.process = "starting" \/ (Up /\ srv.notifier = "new")
    /\ End("killed")

Notify ==
    /\ Up
    /\ srv.notifier = "new"
    /\ ~ srv.signalled
    /\ Server([srv EXCEPT !.notifier = "waiting"])

Told == Up /\ srv.notifier = "waiting" /\ srv.signalled

\* s.srv is nil until the other goroutine has set it.
NoServerYet == Told /\ srv.listener = "new" /\ End("panicked")

ShutDownWhenIdle ==
    /\ Told
    /\ srv.listener \in {"set", "serving"}
    /\ InFlight = {}
    /\ Server([srv EXCEPT !.notifier = "draining", !.listener = "closed"])

ShutDown ==
    /\ Told
    /\ srv.listener \in {"set", "serving"}
    /\ Server([srv EXCEPT !.notifier = "draining", !.listener = "closed"])

\* Shutdown waits for the requests, and for 30 seconds at most.
Drained ==
    /\ Up
    /\ srv.notifier = "draining"
    /\ InFlight = {}
    /\ Server([srv EXCEPT !.notifier = "ended"])

TimeOut ==
    /\ Up
    /\ srv.notifier = "draining"
    /\ InFlight # {}
    /\ Server([srv EXCEPT !.notifier = "ended", !.late = TRUE])

(***************************************************************************)
(* The requests.                                                           *)
(***************************************************************************)
Handle(r, next) ==
    /\ handler' = [handler EXCEPT ![r] = next]
    /\ UNCHANGED <<srv, tplFile>>

Arrive(r, pc) ==
    /\ Up
    /\ srv.listener = "serving"
    /\ r \notin InFlight
    /\ handler' = [s \in Requests |->
                     IF s = r THEN [pc |-> pc, tpl |-> 0, began |-> tplFile.ver,
                                    alone |-> InFlight = {}]
                     ELSE IF s \in InFlight THEN [handler[s] EXCEPT !.alone = FALSE]
                     ELSE handler[s]]
    /\ UNCHANGED <<srv, tplFile, tplMap>>

AcceptAndReload(r) == Arrive(r, "parse")
Accept(r) == Arrive(r, IF srv.dev THEN "parse" ELSE "query")

At(r, pc) == Up /\ handler[r].pc = pc

\* InitTemplates again: a file that cannot be parsed is an answer of its own.
ParseTemplate(r) ==
    /\ At(r, "parse")
    /\ Handle(r, IF tplFile.ok THEN [handler[r] EXCEPT !.pc = "store", !.tpl = tplFile.ver]
                               ELSE [handler[r] EXCEPT !.pc = "error"])
    /\ UNCHANGED tplMap

StoreFirst(r) ==
    /\ At(r, "store")
    /\ tplMap' = IF tplMap = 0 THEN handler[r].tpl ELSE tplMap
    /\ Handle(r, [handler[r] EXCEPT !.pc = "query"])

StoreTemplate(r) ==
    /\ At(r, "store")
    /\ tplMap' = handler[r].tpl
    /\ Handle(r, [handler[r] EXCEPT !.pc = "query"])

\* The map has no lock.  The Go runtime ends the process when it sees a write
\* next to another access, which it need not.
Race(r, s) ==
    /\ r # s
    /\ At(r, "store")
    /\ At(s, "store") \/ At(s, "fetch")
    /\ End("fatal")

\* The address, and the queries of Statistics.
AskDatabase(r) ==
    /\ At(r, "query")
    /\ \E pc \in {"fetch", "error"} : Handle(r, [handler[r] EXCEPT !.pc = pc])
    /\ UNCHANGED tplMap

FetchTemplate(r) ==
    /\ At(r, "fetch")
    /\ Handle(r, [handler[r] EXCEPT !.pc = "execute", !.tpl = tplMap])
    /\ UNCHANGED tplMap

\* A template that parses may still fail on the data, or the visitor be gone.
Execute(r) ==
    /\ At(r, "execute")
    /\ \E pc \in {"answered", "error"} : Handle(r, [handler[r] EXCEPT !.pc = pc])
    /\ UNCHANGED tplMap

\* A developer saves the template file.
Edit ==
    /\ Up
    /\ tplFile.ver <= MaxEdits
    /\ \E ok \in BOOLEAN : tplFile' = [ver |-> tplFile.ver + 1, ok |-> ok]
    /\ UNCHANGED <<srv, tplMap, handler>>

Goroutines ==
    \/ StartServer \/ StartFails \/ MainReturns
    \/ SetServer \/ Listen \/ ServerClosed
    \/ NotNotified \/ Notify \/ NoServerYet \/ ShutDown \/ Drained \/ TimeOut

Handlers ==
    \/ \E r \in Requests :
          \/ Accept(r) \/ ParseTemplate(r) \/ StoreTemplate(r)
          \/ AskDatabase(r) \/ FetchTemplate(r) \/ Execute(r)
    \/ \E r, s \in Requests : Race(r, s)

Next == Goroutines \/ Handlers \/ ListenFails \/ Signal \/ Edit

\* The goroutines of the process itself are scheduled; a visitor need not
\* come, and a query need not be answered.
Fairness ==
    /\ WF_vars(StartServer \/ StartFails) /\ WF_vars(NotNotified) /\ WF_vars(MainReturns)
    /\ WF_vars(SetServer) /\ WF_vars(Listen) /\ WF_vars(ServerClosed)
    /\ WF_vars(Notify) /\ WF_vars(NoServerYet \/ ShutDown) /\ WF_vars(Drained \/ TimeOut)

Spec == Init /\ [][Next]_vars
FairSpec == Spec /\ Fairness

\* No visitor can end the process: it ends because it was told to, because it
\* could not start or listen, and in development mode because of the map
\* (main, the handlers, InitTemplates).
EndsOnDemand ==
    srv.process \in Ended =>
        srv.signalled \/ srv.broken \/ (srv.dev /\ srv.process = "fatal")

\* "reload templates on every access": whoever works on the templates alone
\* sees what was saved before the page was asked for, also after errors.
AloneIsFresh ==
    \A r \in Requests :
        srv.dev /\ handler[r].pc = "answered" /\ handler[r].alone =>
            handler[r].tpl >= handler[r].began

\* Whatever the requests do, hanging in a query included, and whenever it
\* comes: a signal ends the process.
SignalEnds == srv.signalled ~> srv.process \in Ended

\* A request that was being answered when the shutdown began is answered,
\* unless that takes more than 30 seconds.
RequestsAreDrained ==
    srv.process \in {"stopped", "died"} /\ ~ srv.late =>
        \A r \in Requests : handler[r].pc # "cut"
=============================================================================
