-------------------------- MODULE Application_proofs --------------------------
(***************************************************************************)
(* Nobody uses what is destroyed: the function of the worker its object,   *)
(* the group the processor, any thread the log; and a server that lost a   *)
(* thread never serves again - for every number of threads and attempts.   *)
(***************************************************************************)
EXTENDS Application, TLAPS

Initial == {"start_log", "controller"}
Constructing == {"register", "StartLoop", "isStarted"}
Commands == {"exec", "peek", "ConnectAsync", "m_isworking", "isWorking"}
Stopping == {"Stop", "run?", "store", "join"}

\* The group is not serving: none of its threads, except those given up.
Idle == \A t \in Thread \ detached : at[t] \in Ended

LogInv == /\ log = "none" => main = "start_log"
          /\ log = "off" => main = "exit"
          /\ main = "start_log" => log = "none"

\* The worker does not begin before it is registered.
TicketInv ==
  /\ m_wdticket = "unset" => at[Worker] \in {"none", "waiting"} /\ ~m_isEnableRunning
  /\ main = "StartLoop" => m_wdticket = "registered"

WorkerInv ==
  /\ main \in Initial => at[Worker] = "none"
  /\ main \in {"rest", "pool", "sleep", "exit"} => Worker \in detached \/ at[Worker] \in Ended

MembersInv ==
  /\ main \in Constructing \cup Commands \cup Stopping \cup {"destroy", "members"} => members
  /\ main \in {"thread", "wait", "rest"} => members \/ m_clientmode
  /\ main = "members" => m_clientmode

\* A command does not return while the client's thread works.
QuietInv ==
  /\ ~(start /\ polling)
  /\ start \/ polling => \/ main = "m_isworking"
                         \/ main = "isWorking" /\ working

\* What Stop may rely on when it looks at the state once more.
GroupInv ==
  /\ m_clientmode \/ main \in Initial \cup Constructing \cup {"sleep", "exit"} => mstate = "none"
  /\ main \in Stopping => mstate # "none"
  /\ mstate = "none" => Idle
  /\ mstate = "shutdowned" /\ main # "join" => Idle
  /\ main \in {"thread", "wait", "rest", "pool"} => mstate = "invalid" \/ Idle

\* A thread was lost: it has failed, or a destructor gave it up.
Lost == \E t \in Thread : t \in detached \/ at[t] \in {"threw", "failed"}
Last == {"thread", "wait", "rest", "pool", "sleep", "exit"}

\* The server does not come back.  Stop may overwrite "invalid", but then it
\* goes on to the group, whose destructors make the server invalid again.
Doomed == \/ mstate = "invalid"
          \/ mstate = "shutdowned" /\ main = "join" /\ Lost
          \/ main \in Last

LostInv ==
  /\ main = "join" => mstate \in {"shutdowned", "invalid"}
  /\ main = "store" =>
       /\ mstate \in {"run", "running", "invalid"}
       /\ mstate = "invalid" => \E t \in Thread : at[t] \in {"threw", "failed"}
  /\ main \in Last => mstate \notin {"run", "running"}
  /\ Lost => Doomed

\* TypeOK, in the parts that one prover each is good at.
Flags ==
  /\ m_clientmode \in BOOLEAN /\ failed \in BOOLEAN /\ destroying \in BOOLEAN
  /\ isRunning \in BOOLEAN /\ m_isEnableRunning \in BOOLEAN /\ m_isstarted \in BOOLEAN
  /\ members \in BOOLEAN /\ polling \in BOOLEAN /\ start \in BOOLEAN /\ working \in BOOLEAN
Places ==
  /\ main \in {"start_log", "controller", "register", "StartLoop", "isStarted", "exec",
               "peek", "ConnectAsync", "m_isworking", "isWorking", "destroy", "Stop",
               "run?", "store", "join", "pool", "members", "thread", "wait", "rest", "sleep",
               "exit"}
  /\ log \in {"none", "on", "off"}
  /\ at \in [Thread \cup {Worker} ->
              {"none", "waiting", "begun", "function", "threw", "failed", "gone"}]
  /\ detached \subseteq Thread \cup {Worker}
  /\ m_wdticket \in {"unset", "registered", "released"}
  /\ nattempts \in 0 .. m_max_reconnattempts
  /\ mstate \in {"none", "shutdowned", "running", "run", "invalid"}

\* An attempt that is made is one that was left.
AttemptInv == main \in {"ConnectAsync", "m_isworking", "isWorking"} => nattempts # 0

IInv == /\ TypeOK /\ AttemptInv /\ LogInv /\ TicketInv /\ WorkerInv /\ MembersInv
        /\ QuietInv /\ GroupInv /\ LostInv

-----------------------------------------------------------------------------
LEMMA InitIInv == Init => IInv
<1> SUFFICES ASSUME Init PROVE IInv
  OBVIOUS
<1> USE ApplicationAssumption DEF Init
<1>1. TypeOK
  <2>1. Flags BY Zenon DEF Flags
  <2>2. Places BY DEF Places
  <2> QED BY <2>1, <2>2 DEF Flags, Places, TypeOK
<1>2. AttemptInv /\ LogInv /\ TicketInv /\ WorkerInv BY DEF AttemptInv, LogInv, TicketInv,
      WorkerInv, Initial
<1>3. MembersInv /\ QuietInv
  BY DEF MembersInv, QuietInv, Constructing, Commands, Stopping
<1>4. GroupInv BY DEF GroupInv, Idle, Ended, Stopping
<1>5. LostInv BY DEF LostInv, Lost, Last
<1> QED BY <1>1, <1>2, <1>3, <1>4, <1>5 DEF IInv

\* The flags stay flags.
LEMMA FlagStep == Flags /\ [Next]_vars => Flags'
<1> SUFFICES ASSUME Flags, [Next]_vars PROVE Flags'
  OBVIOUS
<1> USE ApplicationAssumption DEF Flags, Goto, Move, object, client, program
<1>1. CASE StartLog \/ ConstructionThrows \/ Help \/ Construct
  BY <1>1, ZenonT(60) DEF StartLog, ConstructionThrows, Help, Construct
<1>2. CASE Register \/ StartLoop \/ Started \/ NotStarted
  BY <1>2, ZenonT(60) DEF Register, StartLoop, Started, NotStarted
<1>3. CASE Prompt \/ Quit \/ OtherKey \/ StopServer
  BY <1>3, ZenonT(60) DEF Prompt, Quit, OtherKey, StopServer
<1>4. CASE StartServer \/ StartGivesUp \/ StartThrows
  BY <1>4, ZenonT(60) DEF StartServer, StartGivesUp, StartThrows, Serving
<1>5. CASE ConnectCommand \/ ConnectAsync \/ SetWorking
  BY <1>5, ZenonT(60) DEF ConnectCommand, ConnectAsync, SetWorking
<1>6. CASE ConnectRefused \/ Waited
  BY <1>6, ZenonT(60) DEF ConnectRefused, Waited, Conclude
<1>7. CASE StopInvalid \/ StopValid \/ StopNothing
  BY <1>7, ZenonT(60) DEF StopInvalid, StopValid, StopNothing, Return
<1>8. CASE StopRunning \/ StoreShutdowned
  BY <1>8, ZenonT(60) DEF StopRunning, StoreShutdowned
<1>9. CASE JoinGroup
  BY <1>9, ZenonT(60) DEF JoinGroup, Return
<1>10. CASE \E t \in Thread \cup {Worker} : GiveUp(t)
  BY <1>10, ZenonT(60) DEF GiveUp, Active
<1>11. CASE DestroyServer \/ DestroyClient \/ DestroyMembers
  BY <1>11, ZenonT(60) DEF DestroyServer, DestroyClient, DestroyMembers
<1>12. CASE DestroyThread \/ JoinWorker
  BY <1>12, ZenonT(60) DEF DestroyThread, JoinWorker
<1>13. CASE DestroyRest \/ DestroyPool \/ StopLog
  BY <1>13, ZenonT(60) DEF DestroyRest, DestroyPool, StopLog, End
<1>14. CASE Begin \/ Skip \/ Announce \/ Poll
  BY <1>14, ZenonT(60) DEF Begin, Skip, Announce, Poll
<1>15. CASE StopPolling \/ FunctionReturns \/ FunctionThrows
  BY <1>15, ZenonT(60) DEF StopPolling, FunctionReturns, FunctionThrows
<1>16. CASE \E t \in Thread : GroupReturns(t) \/ GroupThrows(t) \/ Raise(t)
  BY <1>16, ZenonT(60) DEF GroupReturns, GroupThrows, Raise
<1>17. CASE UNCHANGED vars
  BY <1>17, ZenonT(60) DEF vars
<1> QED BY <1>1, <1>2, <1>3, <1>4, <1>5, <1>6, <1>7, <1>8, <1>9, <1>10, <1>11, <1>12, <1>13,
           <1>14, <1>15, <1>16, <1>17 DEF Next, Main, WorkerStep

\* Everybody stays somewhere.
LEMMA PlaceStep == Places /\ AttemptInv /\ [Next]_vars => Places' /\ AttemptInv'
<1> SUFFICES ASSUME Places, AttemptInv, [Next]_vars PROVE Places' /\ AttemptInv'
  OBVIOUS
<1> USE ApplicationAssumption DEF Places, AttemptInv, Goto, Move, object, client, program
<1>1. CASE StartLog \/ ConstructionThrows \/ Help \/ Construct
  BY <1>1 DEF StartLog, ConstructionThrows, Help, Construct
<1>2. CASE Register \/ StartLoop \/ Started \/ NotStarted
  BY <1>2 DEF Register, StartLoop, Started, NotStarted
<1>3. CASE Prompt \/ Quit \/ OtherKey \/ StopServer
  BY <1>3 DEF Prompt, Quit, OtherKey, StopServer
<1>4. CASE StartServer \/ StartGivesUp \/ StartThrows
  BY <1>4 DEF StartServer, StartGivesUp, StartThrows, Serving
<1>5. CASE ConnectCommand \/ ConnectAsync \/ SetWorking
  BY <1>5 DEF ConnectCommand, ConnectAsync, SetWorking
<1>6. CASE ConnectRefused \/ Waited
  BY <1>6 DEF ConnectRefused, Waited, Conclude
<1>7. CASE StopInvalid \/ StopValid \/ StopNothing
  BY <1>7 DEF StopInvalid, StopValid, StopNothing, Return
<1>8. CASE StopRunning \/ StoreShutdowned
  BY <1>8 DEF StopRunning, StoreShutdowned
<1>9. CASE JoinGroup
  BY <1>9 DEF JoinGroup, Return
<1>10. CASE \E t \in Thread \cup {Worker} : GiveUp(t)
  BY <1>10 DEF GiveUp, Active
<1>11. CASE DestroyServer \/ DestroyClient \/ DestroyMembers
  BY <1>11 DEF DestroyServer, DestroyClient, DestroyMembers
<1>12. CASE DestroyThread \/ JoinWorker
  BY <1>12 DEF DestroyThread, JoinWorker
<1>13. CASE DestroyRest \/ DestroyPool \/ StopLog
  BY <1>13 DEF DestroyRest, DestroyPool, StopLog, End
<1>14. CASE Begin \/ Skip \/ Announce \/ Poll
  BY <1>14 DEF Begin, Skip, Announce, Poll
<1>15. CASE StopPolling \/ FunctionReturns \/ FunctionThrows
  BY <1>15 DEF StopPolling, FunctionReturns, FunctionThrows
<1>16. CASE \E t \in Thread : GroupReturns(t) \/ GroupThrows(t) \/ Raise(t)
  BY <1>16 DEF GroupReturns, GroupThrows, Raise
<1>17. CASE UNCHANGED vars
  BY <1>17 DEF vars
<1> QED BY <1>1, <1>2, <1>3, <1>4, <1>5, <1>6, <1>7, <1>8, <1>9, <1>10, <1>11, <1>12, <1>13,
           <1>14, <1>15, <1>16, <1>17 DEF Next, Main, WorkerStep

LEMMA TypeStep == TypeOK /\ AttemptInv /\ [Next]_vars => TypeOK' /\ AttemptInv'
BY FlagStep, PlaceStep DEF TypeOK, Flags, Places

\* The log is made first, and unmade last.
LEMMA LogStep == TypeOK /\ LogInv /\ [Next]_vars => LogInv'
<1> SUFFICES ASSUME TypeOK, LogInv, [Next]_vars PROVE LogInv'
  OBVIOUS
<1> USE ApplicationAssumption DEF TypeOK, Goto, Move, object, client, program, LogInv
<1>1. CASE StartLog \/ ConstructionThrows \/ Help \/ Construct
  BY <1>1 DEF StartLog, ConstructionThrows, Help, Construct
<1>2. CASE Register \/ StartLoop \/ Started \/ NotStarted
  BY <1>2 DEF Register, StartLoop, Started, NotStarted
<1>3. CASE Prompt \/ Quit \/ OtherKey \/ StopServer
  BY <1>3 DEF Prompt, Quit, OtherKey, StopServer
<1>4. CASE StartServer \/ StartGivesUp \/ StartThrows
  BY <1>4 DEF StartServer, StartGivesUp, StartThrows, Serving
<1>5. CASE ConnectCommand \/ ConnectAsync \/ SetWorking
  BY <1>5 DEF ConnectCommand, ConnectAsync, SetWorking
<1>6. CASE ConnectRefused \/ Waited
  BY <1>6 DEF ConnectRefused, Waited, Conclude
<1>7. CASE StopInvalid \/ StopValid \/ StopNothing
  BY <1>7 DEF StopInvalid, StopValid, StopNothing, Return
<1>8. CASE StopRunning \/ StoreShutdowned
  BY <1>8 DEF StopRunning, StoreShutdowned
<1>9. CASE JoinGroup
  BY <1>9 DEF JoinGroup, Return
<1>10. CASE \E t \in Thread \cup {Worker} : GiveUp(t)
  BY <1>10 DEF GiveUp, Active
<1>11. CASE DestroyServer \/ DestroyClient \/ DestroyMembers
  BY <1>11 DEF DestroyServer, DestroyClient, DestroyMembers
<1>12. CASE DestroyThread \/ JoinWorker
  BY <1>12 DEF DestroyThread, JoinWorker
<1>13. CASE DestroyRest \/ DestroyPool \/ StopLog
  BY <1>13 DEF DestroyRest, DestroyPool, StopLog, End
<1>14. CASE Begin \/ Skip \/ Announce \/ Poll
  BY <1>14 DEF Begin, Skip, Announce, Poll
<1>15. CASE StopPolling \/ FunctionReturns \/ FunctionThrows
  BY <1>15 DEF StopPolling, FunctionReturns, FunctionThrows
<1>16. CASE \E t \in Thread : GroupReturns(t) \/ GroupThrows(t) \/ Raise(t)
  BY <1>16 DEF GroupReturns, GroupThrows, Raise
<1>17. CASE UNCHANGED vars
  BY <1>17 DEF vars
<1> QED BY <1>1, <1>2, <1>3, <1>4, <1>5, <1>6, <1>7, <1>8, <1>9, <1>10, <1>11, <1>12, <1>13,
           <1>14, <1>15, <1>16, <1>17 DEF Next, Main, WorkerStep

\* StartLoop comes behind the registration.
LEMMA TicketStep == TypeOK /\ TicketInv /\ [Next]_vars => TicketInv'
<1> SUFFICES ASSUME TypeOK, TicketInv, [Next]_vars PROVE TicketInv'
  OBVIOUS
<1> USE ApplicationAssumption DEF TypeOK, Goto, Move, object, client, program, TicketInv
<1>1. CASE StartLog \/ ConstructionThrows \/ Help \/ Construct
  BY <1>1 DEF StartLog, ConstructionThrows, Help, Construct
<1>2. CASE Register \/ StartLoop \/ Started \/ NotStarted
  BY <1>2 DEF Register, StartLoop, Started, NotStarted
<1>3. CASE Prompt \/ Quit \/ OtherKey \/ StopServer
  BY <1>3 DEF Prompt, Quit, OtherKey, StopServer
<1>4. CASE StartServer \/ StartGivesUp \/ StartThrows
  BY <1>4 DEF StartServer, StartGivesUp, StartThrows, Serving
<1>5. CASE ConnectCommand \/ ConnectAsync \/ SetWorking
  BY <1>5 DEF ConnectCommand, ConnectAsync, SetWorking
<1>6. CASE ConnectRefused \/ Waited
  BY <1>6 DEF ConnectRefused, Waited, Conclude
<1>7. CASE StopInvalid \/ StopValid \/ StopNothing
  BY <1>7 DEF StopInvalid, StopValid, StopNothing, Return
<1>8. CASE StopRunning \/ StoreShutdowned
  BY <1>8 DEF StopRunning, StoreShutdowned
<1>9. CASE JoinGroup
  BY <1>9 DEF JoinGroup, Return
<1>10. CASE \E t \in Thread \cup {Worker} : GiveUp(t)
  BY <1>10 DEF GiveUp, Active
<1>11. CASE DestroyServer \/ DestroyClient \/ DestroyMembers
  BY <1>11 DEF DestroyServer, DestroyClient, DestroyMembers
<1>12. CASE DestroyThread \/ JoinWorker
  BY <1>12 DEF DestroyThread, JoinWorker
<1>13. CASE DestroyRest \/ DestroyPool \/ StopLog
  BY <1>13 DEF DestroyRest, DestroyPool, StopLog, End
<1>14. CASE Begin \/ Skip \/ Announce \/ Poll
  BY <1>14 DEF Begin, Skip, Announce, Poll
<1>15. CASE StopPolling \/ FunctionReturns \/ FunctionThrows
  BY <1>15 DEF StopPolling, FunctionReturns, FunctionThrows
<1>16. CASE \E t \in Thread : GroupReturns(t) \/ GroupThrows(t) \/ Raise(t)
  BY <1>16 DEF GroupReturns, GroupThrows, Raise
<1>17. CASE UNCHANGED vars
  BY <1>17 DEF vars
<1> QED BY <1>1, <1>2, <1>3, <1>4, <1>5, <1>6, <1>7, <1>8, <1>9, <1>10, <1>11, <1>12, <1>13,
           <1>14, <1>15, <1>16, <1>17 DEF Next, Main, WorkerStep

\* The thread is made with its object, and joined or given up before it goes.
LEMMA WorkerStays == TypeOK /\ LogInv /\ WorkerInv /\ [Next]_vars => WorkerInv'
<1> SUFFICES ASSUME TypeOK, LogInv, WorkerInv, [Next]_vars PROVE WorkerInv'
  OBVIOUS
<1> USE ApplicationAssumption DEF TypeOK, Goto, Move, object, client, program, LogInv,
        WorkerInv, Initial, Ended
<1>1. CASE StartLog \/ ConstructionThrows \/ Help \/ Construct
  BY <1>1 DEF StartLog, ConstructionThrows, Help, Construct
<1>2. CASE Register \/ StartLoop \/ Started \/ NotStarted
  BY <1>2 DEF Register, StartLoop, Started, NotStarted
<1>3. CASE Prompt \/ Quit \/ OtherKey \/ StopServer
  BY <1>3 DEF Prompt, Quit, OtherKey, StopServer
<1>4. CASE StartServer \/ StartGivesUp \/ StartThrows
  BY <1>4 DEF StartServer, StartGivesUp, StartThrows, Serving
<1>5. CASE ConnectCommand \/ ConnectAsync \/ SetWorking
  BY <1>5 DEF ConnectCommand, ConnectAsync, SetWorking
<1>6. CASE ConnectRefused \/ Waited
  BY <1>6 DEF ConnectRefused, Waited, Conclude
<1>7. CASE StopInvalid \/ StopValid \/ StopNothing
  BY <1>7 DEF StopInvalid, StopValid, StopNothing, Return
<1>8. CASE StopRunning \/ StoreShutdowned
  BY <1>8 DEF StopRunning, StoreShutdowned
<1>9. CASE JoinGroup
  BY <1>9 DEF JoinGroup, Return
<1>10. CASE \E t \in Thread \cup {Worker} : GiveUp(t)
  BY <1>10 DEF GiveUp, Active
<1>11. CASE DestroyServer \/ DestroyClient \/ DestroyMembers
  BY <1>11 DEF DestroyServer, DestroyClient, DestroyMembers
<1>12. CASE DestroyThread \/ JoinWorker
  BY <1>12 DEF DestroyThread, JoinWorker
<1>13. CASE DestroyRest \/ DestroyPool \/ StopLog
  BY <1>13 DEF DestroyRest, DestroyPool, StopLog, End
<1>14. CASE Begin \/ Skip \/ Announce \/ Poll
  BY <1>14 DEF Begin, Skip, Announce, Poll
<1>15. CASE StopPolling \/ FunctionReturns \/ FunctionThrows
  BY <1>15 DEF StopPolling, FunctionReturns, FunctionThrows
<1>16. CASE \E t \in Thread : GroupReturns(t) \/ GroupThrows(t) \/ Raise(t)
  BY <1>16 DEF GroupReturns, GroupThrows, Raise
<1>17. CASE UNCHANGED vars
  BY <1>17 DEF vars
<1> QED BY <1>1, <1>2, <1>3, <1>4, <1>5, <1>6, <1>7, <1>8, <1>9, <1>10, <1>11, <1>12, <1>13,
           <1>14, <1>15, <1>16, <1>17 DEF Next, Main, WorkerStep

\* The members go in front of the thread, with the client only.
LEMMA MembersStep == TypeOK /\ MembersInv /\ GroupInv /\ [Next]_vars => MembersInv'
<1> SUFFICES ASSUME TypeOK, MembersInv, GroupInv, [Next]_vars PROVE MembersInv'
  OBVIOUS
<1> USE ApplicationAssumption DEF TypeOK, Goto, Move, object, client, program, MembersInv,
        GroupInv, Initial, Constructing, Commands, Stopping
<1>1. CASE StartLog \/ ConstructionThrows \/ Help \/ Construct
  BY <1>1 DEF StartLog, ConstructionThrows, Help, Construct
<1>2. CASE Register \/ StartLoop \/ Started \/ NotStarted
  BY <1>2 DEF Register, StartLoop, Started, NotStarted
<1>3. CASE Prompt \/ Quit \/ OtherKey \/ StopServer
  BY <1>3 DEF Prompt, Quit, OtherKey, StopServer
<1>4. CASE StartServer \/ StartGivesUp \/ StartThrows
  BY <1>4 DEF StartServer, StartGivesUp, StartThrows, Serving
<1>5. CASE ConnectCommand \/ ConnectAsync \/ SetWorking
  BY <1>5 DEF ConnectCommand, ConnectAsync, SetWorking
<1>6. CASE ConnectRefused \/ Waited
  BY <1>6 DEF ConnectRefused, Waited, Conclude
<1>7. CASE StopInvalid \/ StopValid \/ StopNothing
  BY <1>7 DEF StopInvalid, StopValid, StopNothing, Return
<1>8. CASE StopRunning \/ StoreShutdowned
  BY <1>8 DEF StopRunning, StoreShutdowned
<1>9. CASE JoinGroup
  BY <1>9 DEF JoinGroup, Return
<1>10. CASE \E t \in Thread \cup {Worker} : GiveUp(t)
  BY <1>10 DEF GiveUp, Active
<1>11. CASE DestroyServer \/ DestroyClient \/ DestroyMembers
  BY <1>11 DEF DestroyServer, DestroyClient, DestroyMembers
<1>12. CASE DestroyThread \/ JoinWorker
  BY <1>12 DEF DestroyThread, JoinWorker
<1>13. CASE DestroyRest \/ DestroyPool \/ StopLog
  BY <1>13 DEF DestroyRest, DestroyPool, StopLog, End
<1>14. CASE Begin \/ Skip \/ Announce \/ Poll
  BY <1>14 DEF Begin, Skip, Announce, Poll
<1>15. CASE StopPolling \/ FunctionReturns \/ FunctionThrows
  BY <1>15 DEF StopPolling, FunctionReturns, FunctionThrows
<1>16. CASE \E t \in Thread : GroupReturns(t) \/ GroupThrows(t) \/ Raise(t)
  BY <1>16 DEF GroupReturns, GroupThrows, Raise
<1>17. CASE UNCHANGED vars
  BY <1>17 DEF vars
<1> QED BY <1>1, <1>2, <1>3, <1>4, <1>5, <1>6, <1>7, <1>8, <1>9, <1>10, <1>11, <1>12, <1>13,
           <1>14, <1>15, <1>16, <1>17 DEF Next, Main, WorkerStep

\* The client's thread takes an order while the command waits.
LEMMA QuietStep == TypeOK /\ QuietInv /\ [Next]_vars => QuietInv'
<1> SUFFICES ASSUME TypeOK, QuietInv, [Next]_vars PROVE QuietInv'
  OBVIOUS
<1> USE ApplicationAssumption DEF TypeOK, Goto, Move, object, client, program, QuietInv
<1>1. CASE StartLog \/ ConstructionThrows \/ Help \/ Construct
  BY <1>1 DEF StartLog, ConstructionThrows, Help, Construct
<1>2. CASE Register \/ StartLoop \/ Started \/ NotStarted
  BY <1>2 DEF Register, StartLoop, Started, NotStarted
<1>3. CASE Prompt \/ Quit \/ OtherKey \/ StopServer
  BY <1>3 DEF Prompt, Quit, OtherKey, StopServer
<1>4. CASE StartServer \/ StartGivesUp \/ StartThrows
  BY <1>4 DEF StartServer, StartGivesUp, StartThrows, Serving
<1>5. CASE ConnectCommand \/ ConnectAsync \/ SetWorking
  BY <1>5 DEF ConnectCommand, ConnectAsync, SetWorking
<1>6. CASE ConnectRefused \/ Waited
  BY <1>6 DEF ConnectRefused, Waited, Conclude
<1>7. CASE StopInvalid \/ StopValid \/ StopNothing
  BY <1>7 DEF StopInvalid, StopValid, StopNothing, Return
<1>8. CASE StopRunning \/ StoreShutdowned
  BY <1>8 DEF StopRunning, StoreShutdowned
<1>9. CASE JoinGroup
  BY <1>9 DEF JoinGroup, Return
<1>10. CASE \E t \in Thread \cup {Worker} : GiveUp(t)
  BY <1>10 DEF GiveUp, Active
<1>11. CASE DestroyServer \/ DestroyClient \/ DestroyMembers
  BY <1>11 DEF DestroyServer, DestroyClient, DestroyMembers
<1>12. CASE DestroyThread \/ JoinWorker
  BY <1>12 DEF DestroyThread, JoinWorker
<1>13. CASE DestroyRest \/ DestroyPool \/ StopLog
  BY <1>13 DEF DestroyRest, DestroyPool, StopLog, End
<1>14. CASE Begin \/ Skip \/ Announce \/ Poll
  BY <1>14 DEF Begin, Skip, Announce, Poll
<1>15. CASE StopPolling \/ FunctionReturns \/ FunctionThrows
  BY <1>15 DEF StopPolling, FunctionReturns, FunctionThrows
<1>16. CASE \E t \in Thread : GroupReturns(t) \/ GroupThrows(t) \/ Raise(t)
  BY <1>16 DEF GroupReturns, GroupThrows, Raise
<1>17. CASE UNCHANGED vars
  BY <1>17 DEF vars
<1> QED BY <1>1, <1>2, <1>3, <1>4, <1>5, <1>6, <1>7, <1>8, <1>9, <1>10, <1>11, <1>12, <1>13,
           <1>14, <1>15, <1>16, <1>17 DEF Next, Main, WorkerStep

\* The group serves between Start and Stop.
LEMMA GroupStep == TypeOK /\ MembersInv /\ GroupInv /\ [Next]_vars => GroupInv'
<1> SUFFICES ASSUME TypeOK, MembersInv, GroupInv, [Next]_vars PROVE GroupInv'
  OBVIOUS
<1> USE ApplicationAssumption DEF TypeOK, Goto, Move, object, client, program, MembersInv,
        GroupInv, Idle, Initial, Constructing, Commands, Stopping, Ended
<1>1. CASE StartLog \/ ConstructionThrows \/ Help \/ Construct
  BY <1>1 DEF StartLog, ConstructionThrows, Help, Construct
<1>2. CASE Register \/ StartLoop \/ Started \/ NotStarted
  BY <1>2 DEF Register, StartLoop, Started, NotStarted
<1>3. CASE Prompt \/ Quit \/ OtherKey \/ StopServer
  BY <1>3 DEF Prompt, Quit, OtherKey, StopServer
<1>4. CASE StartServer \/ StartGivesUp \/ StartThrows
  BY <1>4 DEF StartServer, StartGivesUp, StartThrows, Serving
<1>5. CASE ConnectCommand \/ ConnectAsync \/ SetWorking
  BY <1>5 DEF ConnectCommand, ConnectAsync, SetWorking
<1>6. CASE ConnectRefused \/ Waited
  BY <1>6 DEF ConnectRefused, Waited, Conclude
<1>7. CASE StopInvalid \/ StopValid \/ StopNothing
  BY <1>7 DEF StopInvalid, StopValid, StopNothing, Return
<1>8. CASE StopRunning \/ StoreShutdowned
  BY <1>8 DEF StopRunning, StoreShutdowned
<1>9. CASE JoinGroup
  BY <1>9 DEF JoinGroup, Return
<1>10. CASE \E t \in Thread \cup {Worker} : GiveUp(t)
  BY <1>10 DEF GiveUp, Active
<1>11. CASE DestroyServer \/ DestroyClient \/ DestroyMembers
  BY <1>11 DEF DestroyServer, DestroyClient, DestroyMembers
<1>12. CASE DestroyThread \/ JoinWorker
  BY <1>12 DEF DestroyThread, JoinWorker
<1>13. CASE DestroyRest \/ DestroyPool \/ StopLog
  BY <1>13 DEF DestroyRest, DestroyPool, StopLog, End
<1>14. CASE Begin \/ Skip \/ Announce \/ Poll
  BY <1>14 DEF Begin, Skip, Announce, Poll
<1>15. CASE StopPolling \/ FunctionReturns \/ FunctionThrows
  BY <1>15 DEF StopPolling, FunctionReturns, FunctionThrows
<1>16. CASE \E t \in Thread : GroupReturns(t) \/ GroupThrows(t) \/ Raise(t)
  BY <1>16 DEF GroupReturns, GroupThrows, Raise
<1>17. CASE UNCHANGED vars
  BY <1>17 DEF vars
<1> QED BY <1>1, <1>2, <1>3, <1>4, <1>5, <1>6, <1>7, <1>8, <1>9, <1>10, <1>11, <1>12, <1>13,
           <1>14, <1>15, <1>16, <1>17 DEF Next, Main, WorkerStep

\* A thread that is lost dooms the server.
LEMMA LostStep == TypeOK /\ MembersInv /\ GroupInv /\ LostInv /\ [Next]_vars => LostInv'
<1> SUFFICES ASSUME TypeOK, MembersInv, GroupInv, LostInv, [Next]_vars PROVE LostInv'
  OBVIOUS
<1> USE ApplicationAssumption DEF TypeOK, Goto, Move, object, client, program, MembersInv, GroupInv,
        LostInv, Lost, Last, Doomed, Initial, Constructing, Stopping, Ended
<1>1. CASE StartLog \/ ConstructionThrows \/ Help \/ Construct
  BY <1>1 DEF StartLog, ConstructionThrows, Help, Construct
<1>2. CASE Register \/ StartLoop \/ Started \/ NotStarted
  BY <1>2 DEF Register, StartLoop, Started, NotStarted
<1>3. CASE Prompt \/ Quit \/ OtherKey \/ StopServer
  BY <1>3 DEF Prompt, Quit, OtherKey, StopServer
<1>4. CASE StartServer \/ StartGivesUp \/ StartThrows
  BY <1>4 DEF StartServer, StartGivesUp, StartThrows, Serving
<1>5. CASE ConnectCommand \/ ConnectAsync \/ SetWorking
  BY <1>5 DEF ConnectCommand, ConnectAsync, SetWorking
<1>6. CASE ConnectRefused \/ Waited
  BY <1>6 DEF ConnectRefused, Waited, Conclude
<1>7. CASE StopInvalid \/ StopValid \/ StopNothing
  BY <1>7 DEF StopInvalid, StopValid, StopNothing, Return
<1>8. CASE StopRunning \/ StoreShutdowned
  BY <1>8 DEF StopRunning, StoreShutdowned
<1>9. CASE JoinGroup
  BY <1>9 DEF JoinGroup, Return
<1>10. CASE \E t \in Thread \cup {Worker} : GiveUp(t)
  BY <1>10 DEF GiveUp, Active
<1>11. CASE DestroyServer \/ DestroyClient \/ DestroyMembers
  BY <1>11 DEF DestroyServer, DestroyClient, DestroyMembers
<1>12. CASE DestroyThread \/ JoinWorker
  BY <1>12 DEF DestroyThread, JoinWorker
<1>13. CASE DestroyRest \/ DestroyPool \/ StopLog
  BY <1>13 DEF DestroyRest, DestroyPool, StopLog, End
<1>14. CASE Begin \/ Skip \/ Announce \/ Poll
  BY <1>14 DEF Begin, Skip, Announce, Poll
<1>15. CASE StopPolling \/ FunctionReturns \/ FunctionThrows
  BY <1>15 DEF StopPolling, FunctionReturns, FunctionThrows
<1>16. CASE \E t \in Thread : GroupReturns(t) \/ GroupThrows(t) \/ Raise(t)
  BY <1>16 DEF GroupReturns, GroupThrows, Raise
<1>17. CASE UNCHANGED vars
  BY <1>17 DEF vars
<1> QED BY <1>1, <1>2, <1>3, <1>4, <1>5, <1>6, <1>7, <1>8, <1>9, <1>10, <1>11, <1>12, <1>13,
           <1>14, <1>15, <1>16, <1>17 DEF Next, Main, WorkerStep

\* There is no way back, for whatever thread it was.
LEMMA DoomedStays == TypeOK /\ GroupInv /\ LostInv /\ Doomed /\ [Next]_vars => Doomed'
<1> SUFFICES ASSUME TypeOK, GroupInv, LostInv, Doomed, [Next]_vars PROVE Doomed'
  OBVIOUS
<1> USE ApplicationAssumption DEF TypeOK, Goto, Move, object, client, program, GroupInv, LostInv,
        Lost, Last, Doomed, Initial, Constructing, Ended
<1>1. CASE StartLog \/ ConstructionThrows \/ Help \/ Construct
  BY <1>1 DEF StartLog, ConstructionThrows, Help, Construct
<1>2. CASE Register \/ StartLoop \/ Started \/ NotStarted
  BY <1>2 DEF Register, StartLoop, Started, NotStarted
<1>3. CASE Prompt \/ Quit \/ OtherKey \/ StopServer
  BY <1>3 DEF Prompt, Quit, OtherKey, StopServer
<1>4. CASE StartServer \/ StartGivesUp \/ StartThrows
  BY <1>4 DEF StartServer, StartGivesUp, StartThrows, Serving
<1>5. CASE ConnectCommand \/ ConnectAsync \/ SetWorking
  BY <1>5 DEF ConnectCommand, ConnectAsync, SetWorking
<1>6. CASE ConnectRefused \/ Waited
  BY <1>6 DEF ConnectRefused, Waited, Conclude
<1>7. CASE StopInvalid \/ StopValid \/ StopNothing
  BY <1>7 DEF StopInvalid, StopValid, StopNothing, Return
<1>8. CASE StopRunning \/ StoreShutdowned
  BY <1>8 DEF StopRunning, StoreShutdowned
<1>9. CASE JoinGroup
  BY <1>9 DEF JoinGroup, Return
<1>10. CASE \E t \in Thread \cup {Worker} : GiveUp(t)
  BY <1>10 DEF GiveUp, Active
<1>11. CASE DestroyServer \/ DestroyClient \/ DestroyMembers
  BY <1>11 DEF DestroyServer, DestroyClient, DestroyMembers
<1>12. CASE DestroyThread \/ JoinWorker
  BY <1>12 DEF DestroyThread, JoinWorker
<1>13. CASE DestroyRest \/ DestroyPool \/ StopLog
  BY <1>13 DEF DestroyRest, DestroyPool, StopLog, End
<1>14. CASE Begin \/ Skip \/ Announce \/ Poll
  BY <1>14 DEF Begin, Skip, Announce, Poll
<1>15. CASE StopPolling \/ FunctionReturns \/ FunctionThrows
  BY <1>15 DEF StopPolling, FunctionReturns, FunctionThrows
<1>16. CASE \E t \in Thread : GroupReturns(t) \/ GroupThrows(t) \/ Raise(t)
  BY <1>16 DEF GroupReturns, GroupThrows, Raise
<1>17. CASE UNCHANGED vars
  BY <1>17 DEF vars
<1> QED BY <1>1, <1>2, <1>3, <1>4, <1>5, <1>6, <1>7, <1>8, <1>9, <1>10, <1>11, <1>12, <1>13,
           <1>14, <1>15, <1>16, <1>17 DEF Next, Main, WorkerStep

LEMMA NextIInv == IInv /\ [Next]_vars => IInv'
BY TypeStep, LogStep, TicketStep, WorkerStays, MembersStep, QuietStep, GroupStep,
   LostStep DEF IInv

THEOREM Invariance == Spec => []IInv
BY InitIInv, NextIInv, PTL DEF Spec

-----------------------------------------------------------------------------
THEOREM Spec_TypeOK == Spec => []TypeOK
BY Invariance, PTL DEF IInv

\* The worker's function never outlives what it uses, unless the destructor
\* of its thread has given it up.
THEOREM Spec_RunsWithinItsObject == Spec => []RunsWithinItsObject
<1>1. IInv => RunsWithinItsObject
  BY DEF IInv, TypeOK, LogInv, TicketInv, WorkerInv, MembersInv, QuietInv, Ended, Initial,
     Constructing, Commands, Stopping, RunsWithinItsObject
<1> QED BY <1>1, Invariance, PTL

\* The processor is destroyed in front of the group, and still outlives its
\* work, but for the server that became invalid while Stop looked at it.
THEOREM Spec_ProcessorOutlivesGroup == Spec => []ProcessorOutlivesGroup
<1>1. IInv => ProcessorOutlivesGroup
  BY DEF IInv, TypeOK, MembersInv, GroupInv, Idle, Ended, Initial, Constructing, Commands,
     Stopping, ProcessorOutlivesGroup
<1> QED BY <1>1, Invariance, PTL

\* The log is deleted behind all threads, except those given up.
THEOREM Spec_LogOutlivesThreads == Spec => []LogOutlivesThreads
<1>1. IInv => LogOutlivesThreads
  BY DEF IInv, LogInv, WorkerInv, GroupInv, Idle, LogOutlivesThreads
<1> QED BY <1>1, Invariance, PTL

\* Once a thread has thrown or was given up, the server never runs again.
THEOREM Spec_LostThreadIsFinal == Spec => LostThreadIsFinal
<1>1. IInv => ((\E t \in Thread : at[t] = "threw" \/ t \in detached) => Doomed)
  BY DEF IInv, LostInv, Lost
<1>2. IInv /\ Doomed => mstate # "run"
  BY DEF IInv, LostInv, Doomed
<1>3. IInv /\ Doomed /\ [Next]_vars => Doomed'
  BY DoomedStays DEF IInv
<1> QED BY <1>1, <1>2, <1>3, Invariance, PTL DEF Spec, LostThreadIsFinal

\* m_isworking is set for the wait alone, and nobody works on before the
\* thread is there.
WorkingInv ==
  /\ working => main = "isWorking"
  /\ polling => at[Worker] = "function"

LEMMA WorkingStep == TypeOK /\ WorkerInv /\ WorkingInv /\ [Next]_vars => WorkingInv'
<1> SUFFICES ASSUME TypeOK, WorkerInv, WorkingInv, [Next]_vars PROVE WorkingInv'
  OBVIOUS
<1> USE ApplicationAssumption DEF TypeOK, Goto, Move, object, client, program, WorkingInv
<1>1. CASE StartLog \/ ConstructionThrows \/ Help \/ Construct
  BY <1>1 DEF StartLog, ConstructionThrows, Help, Construct, WorkerInv, Initial
<1>2. CASE Register \/ StartLoop \/ Started \/ NotStarted
  BY <1>2 DEF Register, StartLoop, Started, NotStarted
<1>3. CASE Prompt \/ Quit \/ OtherKey \/ StopServer
  BY <1>3 DEF Prompt, Quit, OtherKey, StopServer
<1>4. CASE StartServer \/ StartGivesUp \/ StartThrows
  BY <1>4 DEF StartServer, StartGivesUp, StartThrows, Serving
<1>5. CASE ConnectCommand \/ ConnectAsync \/ SetWorking
  BY <1>5 DEF ConnectCommand, ConnectAsync, SetWorking
<1>6. CASE ConnectRefused \/ Waited
  BY <1>6 DEF ConnectRefused, Waited, Conclude
<1>7. CASE StopInvalid \/ StopValid \/ StopNothing
  BY <1>7 DEF StopInvalid, StopValid, StopNothing, Return
<1>8. CASE StopRunning \/ StoreShutdowned
  BY <1>8 DEF StopRunning, StoreShutdowned
<1>9. CASE JoinGroup
  BY <1>9 DEF JoinGroup, Return
<1>10. CASE \E t \in Thread \cup {Worker} : GiveUp(t)
  BY <1>10 DEF GiveUp, Active
<1>11. CASE DestroyServer \/ DestroyClient \/ DestroyMembers
  BY <1>11 DEF DestroyServer, DestroyClient, DestroyMembers
<1>12. CASE DestroyThread \/ JoinWorker
  BY <1>12 DEF DestroyThread, JoinWorker
<1>13. CASE DestroyRest \/ DestroyPool \/ StopLog
  BY <1>13 DEF DestroyRest, DestroyPool, StopLog, End
<1>14. CASE Begin \/ Skip \/ Announce \/ Poll
  BY <1>14 DEF Begin, Skip, Announce, Poll
<1>15. CASE StopPolling \/ FunctionReturns \/ FunctionThrows
  BY <1>15 DEF StopPolling, FunctionReturns, FunctionThrows
<1>16. CASE \E t \in Thread : GroupReturns(t) \/ GroupThrows(t) \/ Raise(t)
  BY <1>16 DEF GroupReturns, GroupThrows, Raise
<1>17. CASE UNCHANGED vars
  BY <1>17 DEF vars
<1> QED BY <1>1, <1>2, <1>3, <1>4, <1>5, <1>6, <1>7, <1>8, <1>9, <1>10, <1>11, <1>12, <1>13,
           <1>14, <1>15, <1>16, <1>17 DEF Next, Main, WorkerStep

\* A step of the program is one of the hand-over, or leaves it alone.
LEMMA HandoverStep ==
  IInv /\ WorkingInv /\ [Next]_vars => [HandoverOf!Next]_(HandoverOf!handover)
<1> SUFFICES ASSUME IInv, WorkingInv, [Next]_vars
             PROVE  HandoverOf!Next \/ UNCHANGED HandoverOf!handover
  OBVIOUS
<1>0. TypeOK /\ QuietInv
  BY DEF IInv
<1> DEFINE lost == at[Worker] \in {"gone", "failed"}
           Same == UNCHANGED <<Phase, nattempts, start, working, polling, lost>>
<1>1. Same => UNCHANGED HandoverOf!handover
  BY DEF HandoverOf!handover, HandoverOf!flags
<1> HIDE DEF Same
<1> USE ApplicationAssumption
    DEF TypeOK, Goto, Move, Phase, object, client, WorkingInv
<1>2. CASE StartLog \/ ConstructionThrows \/ Help \/ Construct
  <2>1. at[Worker] \notin {"gone", "failed"} \/ ~Construct
    BY <1>2 DEF IInv, WorkerInv, Initial, Construct
  <2> QED BY <1>0, <1>1, <1>2, <2>1 DEF Same, StartLog, ConstructionThrows, Help, Construct
<1>3. CASE Register \/ StartLoop \/ Started \/ NotStarted
  BY <1>1, <1>3 DEF Same, Register, StartLoop, Started, NotStarted
<1>4. CASE Prompt \/ Quit \/ OtherKey \/ StopServer
  BY <1>1, <1>4 DEF Same, Prompt, Quit, OtherKey, StopServer
<1>5. CASE StartServer \/ StartGivesUp \/ StartThrows
  BY <1>0, <1>1, <1>5 DEF Same, StartServer, StartGivesUp, StartThrows, Serving
<1>6. CASE StopInvalid \/ StopValid \/ StopNothing
  BY <1>1, <1>6 DEF Same, StopInvalid, StopValid, StopNothing, Return
<1>7. CASE StopRunning \/ StoreShutdowned
  BY <1>1, <1>7 DEF Same, StopRunning, StoreShutdowned
<1>8. CASE JoinGroup
  BY <1>0, <1>1, <1>8 DEF Same, JoinGroup, Return
<1>9. CASE \E t \in Thread \cup {Worker} : GiveUp(t)
  BY <1>1, <1>9 DEF Same, GiveUp
<1>10. CASE DestroyServer \/ DestroyClient \/ DestroyMembers
  BY <1>1, <1>10 DEF Same, DestroyServer, DestroyClient, DestroyMembers
<1>11. CASE DestroyThread \/ JoinWorker
  BY <1>1, <1>11 DEF Same, DestroyThread, JoinWorker
<1>12. CASE DestroyRest \/ DestroyPool \/ StopLog
  BY <1>1, <1>12 DEF Same, DestroyRest, DestroyPool, StopLog, End
<1>13. CASE \E t \in Thread : GroupReturns(t) \/ GroupThrows(t) \/ Raise(t)
  BY <1>0, <1>1, <1>13 DEF Same, GroupReturns, GroupThrows, Raise
<1>14. CASE UNCHANGED vars
  BY <1>1, <1>14 DEF Same, vars
<1> USE DEF HandoverOf!Next, HandoverOf!handover, HandoverOf!flags, HandoverOf!Conclude
<1>15. CASE ConnectCommand
  BY <1>15 DEF ConnectCommand, HandoverOf!Command
<1>16. CASE ConnectRefused
  BY <1>0, <1>16 DEF ConnectRefused, Conclude, HandoverOf!Refused
<1>17. CASE ConnectAsync
  <2>1. ~start /\ ~polling /\ ~working
    BY <1>0, <1>17 DEF ConnectAsync, QuietInv
  <2> QED BY <1>17, <2>1 DEF ConnectAsync, HandoverOf!Order
<1>18. CASE SetWorking
  BY <1>18 DEF SetWorking, HandoverOf!SetWorking
<1>19. CASE Waited
  <2>1. /\ main = "isWorking" /\ ~working /\ nattempts' = nattempts - 1
        /\ \E again \in BOOLEAN :
             main' = IF again /\ nattempts' # 0 THEN "ConnectAsync" ELSE "exec"
        /\ UNCHANGED <<start, working, polling, at>>
    BY <1>19 DEF Waited, Conclude
  <2> QED BY <1>0, <2>1 DEF HandoverOf!Waited
<1>20. CASE Begin \/ Announce
  BY <1>0, <1>20 DEF Begin, Announce
<1>21. CASE Skip \/ FunctionReturns \/ FunctionThrows
  <2>1. /\ at[Worker] \in {"waiting", "function"} /\ at'[Worker] \in {"gone", "failed"}
        /\ UNCHANGED <<main, nattempts, start, working>>
    BY <1>0, <1>21 DEF Skip, FunctionReturns, FunctionThrows
  <2>2. polling' = FALSE
    BY <1>0, <1>21, Zenon DEF Skip, FunctionReturns, FunctionThrows, WorkingInv
  <2> QED BY <2>1, <2>2 DEF HandoverOf!Ends
<1>22. CASE Poll
  BY <1>0, <1>22 DEF Poll, QuietInv, HandoverOf!Poll
<1>23. CASE StopPolling
  BY <1>0, <1>23 DEF StopPolling, QuietInv, HandoverOf!StopPolling
<1> QED BY <1>2, <1>3, <1>4, <1>5, <1>6, <1>7, <1>8, <1>9, <1>10, <1>11, <1>12, <1>13,
           <1>14, <1>15, <1>16, <1>17, <1>18, <1>19, <1>20, <1>21, <1>22, <1>23
        DEF Next, Main, WorkerStep

\* The client in the program hands its attempts over as Handover says, from
\* its construction to its end.
THEOREM Spec_ImplementsHandover == Spec => ImplementsHandover
<1>1. Init => HandoverOf!Init /\ WorkingInv
  BY ApplicationAssumption DEF Init, HandoverOf!Init, Phase, WorkingInv
<1>2. IInv => TypeOK /\ WorkerInv
  BY DEF IInv
<1> QED BY <1>1, <1>2, WorkingStep, HandoverStep, Invariance, PTL
        DEF Spec, ImplementsHandover, HandoverOf!Spec

-----------------------------------------------------------------------------
(* The program does not hang: the half of FailureEndsProgram that needs no  *)
(* fairness.                                                                *)

\* The main thread need not wait; a thread of the group raises its signal; the worker
\* takes a step that is not its function's.
MainGoes ==
  \/ main \notin {"isStarted", "isWorking", "join", "pool", "wait", "exit"}
  \/ main = "isStarted" /\ (m_isstarted \/ ~m_clientmode)
  \/ main = "isWorking" /\ ~working
  \/ main \in {"join", "pool"} /\ (Idle \/ \E t \in Thread \ detached : Active(t))
  \/ main = "wait" /\ (at[Worker] \in Ended \/ (Active(Worker) /\ Worker \notin detached))
WorkerGoes ==
  \/ at[Worker] = "waiting" /\ (m_isEnableRunning \/ m_wdticket = "released")
  \/ at[Worker] = "begun" \/ (at[Worker] = "function" /\ start)

\* The controller has a client or a server from its construction to its destruction;
\* the worker is on its way while its start is waited for.
StartInv ==
  /\ main \in {"exec", "peek", "destroy"} => m_clientmode \/ mstate # "none"
  /\ main \in Initial \cup {"register", "StartLoop"} => ~m_isEnableRunning
  /\ main \in Initial \cup Constructing => m_wdticket # "released"
  /\ main \in {"register", "StartLoop"} => at[Worker] = "waiting"
  /\ main = "isStarted" => m_isEnableRunning
  /\ main = "isStarted" /\ ~m_isstarted => at[Worker] \in {"waiting", "begun"}
  /\ Worker \in detached => main \in {"rest", "pool", "sleep", "exit"}
  /\ at[Worker] # "threw"
  /\ main \in {"ConnectAsync", "m_isworking", "isWorking"} => m_clientmode
  /\ start \/ polling => m_clientmode
  /\ isRunning => \A t \in Thread : at[t] # "failed"

\* Who waits for ever waits for the client's thread to end its work; and once a
\* thread of the group has raised its signal, the command loop ends at the next key.
WaitsForClientOnly ==
  /\ main # "exit" =>
       \/ MainGoes \/ WorkerGoes \/ \E t \in Thread : at[t] = "threw"
       \/ m_clientmode /\ main = "isWorking" /\ working
  /\ isRunning => \A t \in Thread : at[t] # "failed"

LEMMA InitStartInv == Init => StartInv
BY ApplicationAssumption DEF Init, StartInv, Initial, Constructing

LEMMA StartStep ==
  ASSUME IInv, StartInv, [Next]_vars
  PROVE  StartInv'
<1>0. TypeOK /\ WorkerInv /\ TicketInv /\ GroupInv /\ QuietInv
  BY DEF IInv
<1> USE <1>0, ApplicationAssumption
    DEF TypeOK, Goto, Move, object, client, program, StartInv, Initial, Constructing
<1>1. CASE StartLog \/ ConstructionThrows \/ Help \/ Construct
  BY <1>1 DEF StartLog, ConstructionThrows, Help, Construct, WorkerInv
<1>2. CASE Register \/ StartLoop \/ Started \/ NotStarted
  BY <1>2 DEF Register, StartLoop, Started, NotStarted
<1>3. CASE Prompt \/ Quit \/ OtherKey \/ StopServer
  BY <1>3 DEF Prompt, Quit, OtherKey, StopServer
<1>4. CASE StartServer \/ StartGivesUp \/ StartThrows
  BY <1>4 DEF StartServer, StartGivesUp, StartThrows, Serving
<1>5. CASE ConnectCommand \/ ConnectAsync \/ SetWorking
  BY <1>5 DEF ConnectCommand, ConnectAsync, SetWorking
<1>6. CASE ConnectRefused \/ Waited
  BY <1>6 DEF ConnectRefused, Waited, Conclude
<1>7. CASE StopInvalid \/ StopValid \/ StopNothing
  BY <1>7 DEF StopInvalid, StopValid, StopNothing, Return, GroupInv, Stopping
<1>8. CASE StopRunning \/ StoreShutdowned
  BY <1>8 DEF StopRunning, StoreShutdowned
<1>9. CASE JoinGroup
  BY <1>9 DEF JoinGroup, Return, GroupInv, Stopping
<1>10. CASE \E t \in Thread \cup {Worker} : GiveUp(t)
  BY <1>10 DEF GiveUp, Active
<1>11. CASE DestroyServer \/ DestroyClient \/ DestroyMembers
  BY <1>11 DEF DestroyServer, DestroyClient, DestroyMembers
<1>12. CASE DestroyThread \/ JoinWorker
  BY <1>12 DEF DestroyThread, JoinWorker
<1>13. CASE DestroyRest \/ DestroyPool \/ StopLog
  BY <1>13 DEF DestroyRest, DestroyPool, StopLog, End
<1>14. CASE Begin \/ Skip \/ Announce \/ Poll
  BY <1>14 DEF Begin, Skip, Announce, Poll
<1>15. CASE StopPolling \/ FunctionReturns \/ FunctionThrows
  BY <1>15 DEF QuietInv, StopPolling, FunctionReturns, FunctionThrows
<1>16. CASE \E t \in Thread : GroupReturns(t) \/ GroupThrows(t) \/ Raise(t)
  BY <1>16 DEF GroupReturns, GroupThrows, Raise
<1>17. CASE UNCHANGED vars
  BY <1>17 DEF vars
<1> QED BY <1>1, <1>2, <1>3, <1>4, <1>5, <1>6, <1>7, <1>8, <1>9, <1>10, <1>11, <1>12, <1>13,
           <1>14, <1>15, <1>16, <1>17 DEF Next, Main, WorkerStep

\* Where the main thread waits, one of those it waits for goes on.
LEMMA ProgramGoesOn ==
  ASSUME IInv, StartInv
  PROVE  WaitsForClientOnly
<1>0. TypeOK BY DEF IInv
<1> SUFFICES ASSUME main # "exit", ~MainGoes, \A t \in Thread : at[t] # "threw"
             PROVE  WorkerGoes \/ (m_clientmode /\ main = "isWorking" /\ working)
  BY DEF WaitsForClientOnly, StartInv
<1>1. CASE main = "isStarted"
  <2>1. ~m_isstarted BY <1>1 DEF MainGoes
  <2> QED BY <1>1, <2>1 DEF StartInv, WorkerGoes
<1>2. CASE main = "isWorking"
  BY <1>2 DEF MainGoes, StartInv
<1>3. CASE main \in {"join", "pool"}
  <2>1. PICK t \in Thread \ detached : at[t] \notin Ended BY <1>3 DEF MainGoes, Idle
  <2>2. Active(t) BY <1>0, <2>1 DEF TypeOK, Ended, Active
  <2> QED BY <1>3, <2>2 DEF MainGoes
<1>4. CASE main = "wait"
  <2>1. Worker \notin detached BY <1>4 DEF StartInv
  <2>2. at[Worker] \in Ended \/ Active(Worker)
    BY <1>0 DEF TypeOK, StartInv, Ended, Active
  <2> QED BY <1>4, <2>1, <2>2 DEF MainGoes
<1> QED BY <1>1, <1>2, <1>3, <1>4 DEF MainGoes

\* The main thread gets to its end wherever threads fail or hang, as long as the
\* threads that ought to go on do, but for a command that waits for the thread of
\* the client; and a signal of the group is not overlooked by the command loop.
THEOREM Spec_WaitsForClientOnly == Spec => []WaitsForClientOnly
<1>1. IInv /\ StartInv /\ [Next]_vars => StartInv'
  BY StartStep
<1>2. IInv /\ StartInv => WaitsForClientOnly
  BY ProgramGoesOn
<1> QED BY <1>1, <1>2, InitStartInv, Invariance, PTL DEF Spec
=============================================================================
