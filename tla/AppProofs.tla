------------------------------ MODULE AppProofs ------------------------------
(***************************************************************************)
(* Proofs about the start and the life of the process, which share no      *)
(* state. AppLifecycle, for any servers and any requests: the storage is   *)
(* closed last, and the code says why Run ended; the inductive invariant   *)
(* says what the listener and the handlers of a server can be at each step *)
(* of its Run, and what app.Run has seen when it is that far. Config, for  *)
(* any parameters, defaults and values: what the process is given follows  *)
(* the order of the sources; the invariant says what the configuration is  *)
(* at each stage.                                                          *)
(***************************************************************************)
EXTENDS AppLifecycle, Config, TLAPS

Failed == {"unbound", "broken"}

\* Listener and handlers of a server, by where its Run is.
ServerInv ==
  \A s \in Servers :
    /\ listener[s] = "starting" => spc[s] = IF s \in GrpcServers THEN "listen" ELSE "select"
    /\ listener[s] = "serving" => spc[s] = "select"
    /\ spc[s] = "report" => listener[s] \in Failed
    /\ spc[s] = "shutdown" => listener[s] \in {"closed"} \cup
                                (IF s \in GrpcServers THEN {"broken"} ELSE {})
    /\ spc[s] = "stopped" => listener[s] \in Failed \cup {"closed"}

\* A server that stopped has no handlers left, but for an http server that broke.
HandlerInv ==
  \A h \in Handlers : hpc[h] = "running" =>
    /\ listener[Home[h]] \in {"serving", "broken", "closed"}
    /\ spc[Home[h]] = "stopped" => Home[h] \in HttpServers /\ listener[Home[h]] = "broken"

AllStopped == flusher = "stopped" /\ \A s \in Servers : spc[s] = "stopped"

\* What is there, and what has stopped, by where app.Run is.
MainInv ==
  /\ mpc = "init" => store = "none" /\ \A s \in Servers : spc[s] = "none" /\ listener[s] = "none"
  /\ mpc \in {"select", "wait", "close"} => store = "open"
  /\ store = "closed" => mpc = "exited"
  /\ (mpc = "close" \/ store = "closed") => AllStopped

\* Where the code comes from. A server that reported keeps its failed listener.
CodeInv ==
  /\ mpc \in {"init", "select"} => code = 0
  /\ mpc \in {"init", "select"} /\ ctxDone => signalled
  /\ mpc \in {"wait", "close", "exited"} /\ code = 0 => signalled
  /\ mpc \in {"wait", "close", "exited"} /\ code = 1 =>
       \/ store = "none"
       \/ \E s \in Servers : spc[s] \in {"shutdown", "stopped"} /\ listener[s] \in Failed

IInv == TypeOK /\ ServerInv /\ HandlerInv /\ MainInv /\ CodeInv

LEMMA InitIInv == Init => IInv
<1> SUFFICES ASSUME Init PROVE IInv
  OBVIOUS
<1>1. TypeOK
  <2>1. code \in 0..1
    BY DEF Init
  <2>2. spc \in [Servers -> ServerPC] /\ hpc \in [Handlers -> {"none", "running", "served"}]
    BY DEF Init, ServerPC
  <2>3. listener \in [Servers -> {"none", "starting", "serving", "unbound", "broken", "closed"}]
    BY DEF Init
  <2> QED  BY <2>1, <2>2, <2>3 DEF Init, TypeOK, MainPC
<1>2. ServerInv
  BY DEF Init, ServerInv
<1>3. HandlerInv /\ MainInv /\ CodeInv
  BY DEF Init, HandlerInv, MainInv, CodeInv
<1> QED  BY <1>1, <1>2, <1>3 DEF IInv

\* The steps of app.Run, and a signal.
LEMMA MainSteps == IInv /\ (Main \/ Signal) => IInv'
<1> SUFFICES ASSUME IInv, Main \/ Signal PROVE IInv'
  OBVIOUS
<1> USE ServersAssumption DEF IInv
<1>1. CASE Boot
  <2>1. TypeOK'
    BY <1>1 DEF Boot, TypeOK, MainPC, ServerPC
  <2>2. ServerInv' /\ HandlerInv'
    BY <1>1 DEF Boot, TypeOK, ServerInv, HandlerInv, MainInv, Servers, Failed
  <2>3. MainInv' /\ CodeInv'
    BY <1>1 DEF Boot, TypeOK, MainInv, CodeInv, AllStopped, Failed
  <2> QED  BY <2>1, <2>2, <2>3
<1>2. CASE MainDone
  BY <1>2 DEF MainDone, TypeOK, MainPC, ServerInv, HandlerInv, MainInv, CodeInv, AllStopped
<1>3. CASE WaitDone
  BY <1>3 DEF WaitDone, TypeOK, MainPC, ServerInv, HandlerInv, MainInv, CodeInv, AllStopped
<1>4. CASE StoreClose
  BY <1>4 DEF StoreClose, TypeOK, MainPC, ServerInv, HandlerInv, MainInv, CodeInv, AllStopped
<1>5. CASE Signal
  BY <1>5 DEF Signal, TypeOK, MainPC, ServerInv, HandlerInv, MainInv, CodeInv, AllStopped
<1> QED  BY <1>1, <1>2, <1>3, <1>4, <1>5 DEF Main

\* The steps of one server.
LEMMA ServerSteps ==
  ASSUME NEW s \in Servers, IInv, Server(s)
  PROVE  IInv'
<1> USE ServersAssumption DEF IInv
<1>1. CASE ListenOk(s)
  <2>1. TypeOK' /\ ServerInv'
    BY <1>1 DEF ListenOk, TypeOK, ServerPC, ServerInv, Failed, Servers
  <2>2. HandlerInv'
    BY <1>1 DEF ListenOk, TypeOK, ServerInv, HandlerInv, Servers
  <2>3. MainInv' /\ CodeInv'
    BY <1>1 DEF ListenOk, TypeOK, ServerInv, MainInv, CodeInv, AllStopped, Failed, Servers
  <2> QED  BY <2>1, <2>2, <2>3
<1>2. CASE ListenFails(s)
  <2>1. TypeOK' /\ ServerInv'
    BY <1>2 DEF ListenFails, TypeOK, ServerPC, ServerInv, Failed, Servers
  <2>2. HandlerInv'
    BY <1>2 DEF ListenFails, TypeOK, ServerInv, HandlerInv, Servers
  <2>3. MainInv' /\ CodeInv'
    BY <1>2 DEF ListenFails, TypeOK, ServerInv, MainInv, CodeInv, AllStopped, Failed, Servers
  <2> QED  BY <2>1, <2>2, <2>3
<1>3. CASE ServeFails(s)
  BY <1>3 DEF ServeFails, TypeOK, ServerInv, HandlerInv, MainInv, CodeInv, AllStopped, Failed
<1>4. CASE SelectError(s)
  BY <1>4 DEF SelectError, TypeOK, ServerPC, ServerInv, HandlerInv, MainInv, CodeInv, AllStopped, Failed
<1>5. CASE SelectDone(s)
  <2>1. TypeOK' /\ ServerInv'
    BY <1>5 DEF SelectDone, TypeOK, ServerPC, ServerInv, Failed
  <2>2. HandlerInv'
    <3> SUFFICES ASSUME NEW h \in Handlers, hpc[h] = "running"
                 PROVE  /\ listener'[Home[h]] \in {"serving", "broken", "closed"}
                        /\ spc'[Home[h]] = "stopped" => /\ Home[h] \in HttpServers
                                                        /\ listener'[Home[h]] = "broken"
      BY <1>5 DEF SelectDone, HandlerInv
    <3>1. CASE Home[h] = s
      BY <1>5, <3>1 DEF SelectDone, TypeOK
    <3>2. CASE Home[h] # s
      BY <1>5, <3>2 DEF SelectDone, TypeOK, HandlerInv
    <3> QED  BY <3>1, <3>2
  <2>3. MainInv'
    BY <1>5 DEF SelectDone, TypeOK, MainInv, AllStopped
  <2>4. CodeInv'
    BY <1>5 DEF SelectDone, TypeOK, CodeInv
  <2> QED  BY <2>1, <2>2, <2>3, <2>4
<1>6. CASE Report(s)
  <2>1. TypeOK' /\ ServerInv'
    BY <1>6 DEF Report, TypeOK, MainPC, ServerPC, ServerInv, Failed, Servers
  <2>2. HandlerInv'
    BY <1>6 DEF Report, TypeOK, ServerInv, HandlerInv, Failed, Servers
  <2>3. MainInv' /\ CodeInv'
    BY <1>6 DEF Report, TypeOK, ServerInv, MainInv, CodeInv, AllStopped, Failed
  <2> QED  BY <2>1, <2>2, <2>3
<1>7. CASE ShutdownDone(s)
  <2>1. TypeOK' /\ ServerInv'
    BY <1>7 DEF ShutdownDone, TypeOK, ServerPC, ServerInv, Failed, Servers
  <2>2. HandlerInv'
    BY <1>7 DEF ShutdownDone, TypeOK, ServerInv, HandlerInv, Failed, Servers
  <2>3. MainInv' /\ CodeInv'
    BY <1>7 DEF ShutdownDone, TypeOK, ServerInv, MainInv, CodeInv, AllStopped, Failed
  <2> QED  BY <2>1, <2>2, <2>3
<1> QED  BY <1>1, <1>2, <1>3, <1>4, <1>5, <1>6, <1>7 DEF Server

LEMMA NextIInv == IInv /\ [Next]_vars => IInv'
<1> SUFFICES ASSUME IInv, [Next]_vars PROVE IInv'
  OBVIOUS
<1>1. CASE UNCHANGED vars
  BY <1>1 DEF vars, IInv, TypeOK, ServerInv, HandlerInv, MainInv, CodeInv, AllStopped
<1>2. CASE FlusherStop
  BY <1>2 DEF FlusherStop, IInv, TypeOK, ServerInv, HandlerInv, MainInv, CodeInv, AllStopped
<1>3. ASSUME NEW h \in Handlers, HandlerStart(h) PROVE IInv'
  BY <1>3, ServersAssumption DEF HandlerStart, IInv, TypeOK, ServerInv, HandlerInv, MainInv,
     CodeInv, AllStopped
<1>4. ASSUME NEW h \in Handlers, HandlerEnd(h) PROVE IInv'
  BY <1>4, ServersAssumption DEF HandlerEnd, IInv, TypeOK, ServerInv, HandlerInv, MainInv,
     CodeInv, AllStopped
<1> QED  BY <1>1, <1>2, <1>3, <1>4, MainSteps, ServerSteps DEF Next, Handler

\* The invariant holds for ever.
THEOREM Inductive == Spec => []IInv
BY InitIInv, NextIInv, PTL DEF Spec

\* The variables keep their types.
THEOREM TypeCorrect == Spec => []TypeOK
<1>1. IInv => TypeOK
  BY DEF IInv
<1> QED  BY Inductive, <1>1, PTL

\* The storage is closed last, whatever fails and whoever is still served.
THEOREM ClosedLast == Spec => []StoreClosedLast
<1>1. IInv => StoreClosedLast
  BY ServersAssumption DEF IInv, MainInv, HandlerInv, AllStopped, StoreClosedLast
<1> QED  BY Inductive, <1>1, PTL

\* The code that Run returns says why it ended.
THEOREM CodeIsTrue == Spec => []CodeTellsWhy
<1>1. IInv => CodeTellsWhy
  BY DEF IInv, CodeInv, CodeTellsWhy, Failed
<1> QED  BY Inductive, <1>1, PTL

-----------------------------------------------------------------------------

(***************************************************************************)
(* Config.                                                                 *)
(***************************************************************************)

\* The path is one of the three, and a file speaks only of its sections.
Sources ==
  /\ path \in {"none", "good", "bad"}
  /\ \A p \in Params : ~In(p, sections) => file[p] = Zero

\* What the file and the command line make of a parameter.
FromFile(p) ==
  IF SectionOf[p] = "filter" THEN file[p]
  ELSE IF Given(p) \/ file[p] = Zero THEN flag[p] ELSE file[p]

Stages ==
  /\ stage = "file" => \A p \in Params : cfg[p] = flag[p]
  /\ stage = "merge" => /\ path = "good" /\ has = sections
                        /\ \A p \in Params : cfg[p] = file[p]
  /\ stage = "envs" => /\ path # "bad"
                       /\ \A p \in Params :
                            cfg[p] = IF path = "none" THEN flag[p] ELSE FromFile(p)

ConfigInv == Sources /\ Stages /\ Precedence

LEMMA ConfigInitInv == ConfigInit => ConfigInv
<1> SUFFICES ASSUME ConfigInit PROVE ConfigInv
  OBVIOUS
<1>1. stage = "flags"
  BY DEF ConfigInit
<1>2. Sources
  <2>1. PICK F \in Focus : /\ flag \in Says(F, FlagVals, DefaultOf)
                           /\ file \in Says({p \in F : In(p, sections)}, FileVals, Blank)
    BY DEF ConfigInit
  <2>2. path \in {"none", "good", "bad"}
    BY DEF ConfigInit
  <2>3. ASSUME NEW p \in Params, ~In(p, sections) PROVE file[p] = Zero
    BY <2>1, <2>3 DEF Says, Blank
  <2> QED  BY <2>2, <2>3 DEF Sources
<1> QED  BY <1>1, <1>2 DEF ConfigInv, Stages, Precedence

\* A merged value is the one the precedence gives.
LEMMA MergedIsPreferred ==
  ASSUME NEW p \in Params, SectionOf[p] # "filter"
  PROVE  Merged(file[p], flag[p], DefaultOf[p]) = FromFile(p)
BY DEF Merged, FromFile, Given

LEMMA ConfigNextInv == ConfigInv /\ [ConfigNext]_configVars => ConfigInv'
<1> SUFFICES ASSUME ConfigInv, [ConfigNext]_configVars PROVE ConfigInv'
  OBVIOUS
<1> USE DEF inputs
<1>1. CASE UNCHANGED configVars
  BY <1>1 DEF configVars, ConfigInv, Sources, Stages, Precedence, Forgotten, InOrder, FromFile, Given, In
<1>2. CASE ReadFlags
  BY <1>2 DEF ReadFlags, ConfigInv, Sources, Stages, Precedence, In
<1>3. CASE ReadFile
  <2>1. CASE path = "none"
    BY <1>3, <2>1 DEF ReadFile, ConfigInv, Sources, Stages, Precedence, Forgotten, InOrder, FromFile, Given, In
  <2>2. CASE path = "bad"
    BY <1>3, <2>2 DEF ReadFile, ConfigInv, Sources, Stages, Precedence, Forgotten, InOrder, FromFile, Given, In
  <2>3. CASE path = "good"
    BY <1>3, <2>3 DEF ReadFile, ConfigInv, Sources, Stages, Precedence, Forgotten, InOrder, FromFile, Given, In
  <2> QED  BY <2>1, <2>2, <2>3 DEF ConfigInv, Sources
<1>4. CASE Merge
  <2>1. ASSUME NEW p \in Params PROVE cfg'[p] = FromFile(p)
    <3>1. CASE SectionOf[p] = "filter"
      BY <1>4, <3>1 DEF Merge, ConfigInv, Stages, FromFile, In
    <3>2. CASE SectionOf[p] # "filter" /\ ~In(p, has)
      BY <1>4, <3>2 DEF Merge, ConfigInv, Sources, Stages, FromFile, In
    <3>3. CASE SectionOf[p] # "filter" /\ In(p, has)
      BY <1>4, <3>3, MergedIsPreferred DEF Merge, ConfigInv, Stages, In
    <3> QED  BY <3>1, <3>2, <3>3
  <2> QED  BY <1>4, <2>1 DEF Merge, ConfigInv, Sources, Stages, Precedence, Forgotten, InOrder, FromFile, Given, In
<1>5. CASE MergeEnvs
  <2>1. CASE "filter" \notin has
    BY <1>5, <2>1 DEF MergeEnvs, ConfigInv, Sources, Stages, Precedence, In
  <2>2. CASE "filter" \in has
    <3>1. ASSUME NEW p \in Params PROVE Forgotten(p)' \/ cfg'[p] = InOrder(p)'
      <4>1. /\ UNCHANGED <<path, flag, file, sections, env>>
            /\ cfg'[p] = IF env[p] = Unset THEN cfg[p] ELSE env[p]
        BY <1>5, <2>2 DEF MergeEnvs
      <4>2. cfg[p] = IF path = "none" THEN flag[p] ELSE FromFile(p)
        BY <1>5 DEF MergeEnvs, ConfigInv, Stages
      <4>3. path \in {"none", "good"}
        BY <1>5 DEF MergeEnvs, ConfigInv, Stages, Sources
      <4> QED  BY <4>1, <4>2, <4>3 DEF Forgotten, InOrder, FromFile, Given, In
    <3>2. Precedence'
      BY <3>1 DEF Precedence
    <3> QED  BY <1>5, <2>2, <3>2 DEF MergeEnvs, ConfigInv, Sources, Stages, In
  <2> QED  BY <2>1, <2>2
<1>6. CASE Build
  BY <1>6 DEF Build, ConfigInv, Sources, Stages, Precedence, Forgotten, InOrder, Given, In
<1>7. CASE CreateStorage
  BY <1>7 DEF CreateStorage, ConfigInv, Sources, Stages, Precedence, Forgotten, InOrder, Given, In
<1> QED  BY <1>1, <1>2, <1>3, <1>4, <1>5, <1>6, <1>7 DEF ConfigNext

\* What reaches the process follows the order of the sources, but for the flags of
\* the filter that are forgotten beside a file.
THEOREM PrecedenceHolds == ConfigSpec => []Precedence
<1>1. ConfigInv => Precedence
  BY DEF ConfigInv
<1> QED  BY ConfigInitInv, ConfigNextInv, <1>1, PTL DEF ConfigSpec

\* The memory is chosen only with an emptied path, whatever the other sources say.
THEOREM MemoryIsAsked == ConfigSpec => []MemoryOnlyOnRequest
<1>1. ConfigInit => MemoryOnlyOnRequest
  BY DEF ConfigInit, MemoryOnlyOnRequest
<1>2. ConfigInv /\ MemoryOnlyOnRequest /\ [ConfigNext]_configVars => MemoryOnlyOnRequest'
  <2> SUFFICES ASSUME ConfigInv, MemoryOnlyOnRequest, [ConfigNext]_configVars PROVE MemoryOnlyOnRequest'
    OBVIOUS
  <2> USE DEF inputs
  <2>1. CASE storage' = storage
    <3>1. UNCHANGED <<env, flag>>
      BY DEF ConfigNext, configVars, ReadFlags, ReadFile, Merge, MergeEnvs, Build, CreateStorage
    <3> QED  BY <2>1, <3>1 DEF MemoryOnlyOnRequest
  <2>2. CASE CreateStorage
    <3>1. storage' = "memory" /\ storage # "memory" => cfg["file_storage_path"] = Zero
      BY <2>2 DEF CreateStorage
    <3>2. cfg["file_storage_path"] = Zero =>
            Zero \in {env["file_storage_path"], flag["file_storage_path"]}
      <4>1. "file_storage_path" \in Params /\ ~Forgotten("file_storage_path")
        BY StorageAssumption DEF Forgotten, In
      <4>2. cfg["file_storage_path"] = InOrder("file_storage_path")
        BY <2>2, <4>1 DEF CreateStorage, ConfigInv, Precedence
      <4> QED  BY <4>2 DEF InOrder
    <3> QED  BY <2>2, <3>1, <3>2 DEF CreateStorage, MemoryOnlyOnRequest
  <2> QED  BY <2>1, <2>2 DEF ConfigNext, configVars, ReadFlags, ReadFile, Merge, MergeEnvs, Build
<1>3. ConfigInv /\ MemoryOnlyOnRequest /\ [ConfigNext]_configVars => (ConfigInv /\ MemoryOnlyOnRequest)'
  BY ConfigNextInv, <1>2
<1> QED  BY ConfigInitInv, <1>1, <1>3, PTL DEF ConfigSpec
=============================================================================
