---------------------------- MODULE ServiceProofs ----------------------------
(***************************************************************************)
(* What starts, stops and restarts of the service guarantee however many   *)
(* calls overlap and however many servers there have been.                 *)
(***************************************************************************)
EXTENDS Service, TLAPS

Held(c) == call[c].held

Places == {"idle", "write", "look", "take", "close", "check", "load", "listen", "error",
           "publish", "switch"}
CallType == [pc : Places, op : {"none", "start", "stop", "save", "on", "off", "setup"},
             held : Servers \cup {None}, alone : BOOLEAN, config : Configs]

Types ==
  /\ file \in Configs
  /\ state \in {"DISCONNECTED", "CONNECTING", "CONNECTED", "ERROR"}
  /\ server \in Servers \cup {None}
  /\ Listening \subseteq Servers /\ \A s \in Listening : running[s] \in Configs
  /\ running = [s \in Listening |-> running[s]]
  /\ call \in [Callers -> CallType]

(* A server is in one place: in API.server, or in the hands of the call    *)
(* that closes it or is about to publish it.                               *)
OnePlace ==
  /\ \A c \in Callers : call[c].pc \notin {"close", "publish"} => Held(c) = None
  /\ \A c \in Callers : Held(c) # None => Held(c) # server
  /\ \A c, d \in Callers : Held(c) # None /\ c # d => Held(c) # Held(d)
  /\ \A c \in Callers : At(c, "publish") => Held(c) \in Listening

(* Nobody else is calling while a call is alone.                           *)
NobodyElse ==
  \A c \in Callers : call[c].alone => ~At(c, "idle") /\ \A d \in Callers \ {c} : At(d, "idle")

(* What a lone call may rely on.  For "on" and "off" the account's switch  *)
(* in the file is the one asked for.                                       *)
Changing == {"save", "on", "off"}
Wanted(c, cfg) == call[c].op \in {"on", "off"} => cfg.on = (call[c].op = "on")
Lone(c) ==
  /\ call[c].op = "stop" => call[c].pc \in {"take", "close"}
  /\ At(c, "close") => server = None
  /\ At(c, "switch") => call[c].op \in {"on", "off"}
  /\ At(c, "write") => Wanted(c, call[c].config)
  /\ call[c].op \in Changing =>
       /\ ~At(c, "write") => Wanted(c, file)
       /\ call[c].pc \in {"close", "check", "load", "listen", "publish"} => state # "CONNECTED"
       /\ At(c, "look") => call[c].config = file
       /\ At(c, "listen") => call[c].config = file
       /\ At(c, "publish") => running[Held(c)] = file
       /\ At(c, "switch") /\ state = "CONNECTED" => running[server] = file \/ ~file.complete

LoneInv == \A c \in Callers : call[c].alone => Lone(c)

ServiceInv ==
  /\ Types
  /\ OnePlace
  /\ NobodyElse
  /\ LoneInv
  /\ ConnectedIsListening

(* Unless starts have crossed, one is in progress at most, and while one   *)
(* is, or there is no connection, API.server is empty.                     *)
Apart ==
  ~crossed => /\ \A c, d \in Starting : c = d
              /\ Starting # {} \/ state # "CONNECTED" => server = None
-----------------------------------------------------------------------------
(* What a step does to the calls: one of them moves to a place, or returns.*)

Others(c) == \A d \in Callers \ {c} : call'[d] = call[d]

Moved(c, place, holds, cfg) ==
  /\ call' \in [Callers -> CallType] /\ Others(c)
  /\ call'[c] = [pc |-> place, op |-> call[c].op, held |-> holds, alone |-> call[c].alone,
                 config |-> cfg]

Returned(c) ==
  call' \in [Callers -> CallType] /\ Others(c) /\ call'[c] = Idle

LEMMA IdleType == Idle \in CallType /\ Idle.config \in Configs
<1>1. \E port \in Ports :
        [port |-> port, mode |-> "vercel", on |-> FALSE, complete |-> FALSE]
          \in {cfg \in Configs : ~cfg.complete}
  BY ServiceAssumption DEF Configs, Modes
<1>2. (CHOOSE cfg \in Configs : ~cfg.complete) \in Configs
  BY <1>1
<1> QED
  BY <1>2 DEF Idle, CallType, Places

LEMMA Moving ==
  ASSUME Types, NEW c \in Callers, NEW place \in Places, NEW holds \in Servers \cup {None},
         NEW cfg \in Configs,
         \/ call' = [call EXCEPT ![c].pc = place] /\ holds = call[c].held /\ cfg = call[c].config
         \/ /\ call' = [call EXCEPT ![c].pc = place, ![c].held = holds, ![c].config = Idle.config]
            /\ cfg = Idle.config
         \/ call' = [call EXCEPT ![c].pc = place, ![c].config = cfg] /\ holds = call[c].held
  PROVE  Moved(c, place, holds, cfg)
<1> DEFINE r == [pc |-> place, op |-> call[c].op, held |-> holds, alone |-> call[c].alone,
                 config |-> cfg]
<1>1. call \in [Callers -> CallType] /\ call[c] \in CallType
  BY DEF Types
<1>2. r \in CallType
  BY <1>1 DEF CallType
<1>3. call[c] = [pc |-> call[c].pc, op |-> call[c].op, held |-> call[c].held,
                 alone |-> call[c].alone, config |-> call[c].config]
  BY <1>1 DEF CallType
<1>4. call' = [call EXCEPT ![c] = r]
  BY <1>1, <1>3
<1> HIDE DEF r
<1>5. call' \in [Callers -> CallType] /\ Others(c) /\ call'[c] = r
  BY <1>1, <1>2, <1>4 DEF Others
<1> QED
  BY <1>5 DEF Moved, r

LEMMA Returning ==
  ASSUME Types, NEW c \in Callers, Return(c)
  PROVE  Returned(c)
BY IdleType DEF Types, Return, Returned, Others

LEMMA Going ==
  ASSUME Types, NEW c \in Callers, NEW place \in Places, Goto(c, place)
  PROVE  Moved(c, place, Held(c), call[c].config)
<1>1. call[c].held \in Servers \cup {None} /\ call[c].config \in Configs
  BY DEF Types, CallType
<1> QED
  BY <1>1, Moving DEF Goto, Held

LEMMA Forgetting ==
  ASSUME Types, NEW c \in Callers, NEW place \in Places, NEW holds \in Servers \cup {None},
         Forget(c, place, holds)
  PROVE  Moved(c, place, holds, Idle.config)
BY IdleType, Moving DEF Forget

LEMMA AfterStarting ==
  ASSUME Types, NEW c \in Callers, AfterStart(c)
  PROVE  \/ call[c].op \in {"on", "off"} /\ Moved(c, "switch", None, Idle.config)
         \/ call[c].op \notin {"on", "off"} /\ Returned(c)
BY Forgetting, Returning DEF AfterStart, Places

(* Whoever is alone stays alone.                                           *)
LEMMA StillAlone ==
  ASSUME Types, NobodyElse, NEW c \in Callers, ~At(c, "idle"),
         \/ \E place, holds, cfg : place \in Places \ {"idle"} /\ Moved(c, place, holds, cfg)
         \/ Returned(c)
  PROVE  NobodyElse' /\ \A d \in Callers \ {c} : ~call'[d].alone
<1>1. \A d \in Callers \ {c} : call'[d] = call[d] /\ ~call[d].alone
  BY DEF NobodyElse, Moved, Returned, Others, At
<1>2. call'[c].alone => call[c].alone /\ call'[c].pc # "idle"
  <2>1. CASE \E place, holds, cfg : place \in Places \ {"idle"} /\ Moved(c, place, holds, cfg)
    <3>1. PICK place, holds, cfg : place \in Places \ {"idle"} /\ Moved(c, place, holds, cfg)
      BY <2>1
    <3>2. call'[c].pc = place /\ call'[c].alone = call[c].alone
      BY <3>1 DEF Moved
    <3> QED
      BY <3>1, <3>2
  <2>2. CASE Returned(c)
    BY <2>2 DEF Returned, Idle
  <2> QED
    BY <2>1, <2>2
<1> QED
  BY <1>1, <1>2 DEF NobodyElse, At

LEMMA LoneFollows ==
  ASSUME NEW c \in Callers, \A d \in Callers \ {c} : ~call'[d].alone,
         call'[c].alone => Lone(c)'
  PROVE  LoneInv'
BY DEF LoneInv
-----------------------------------------------------------------------------
(* The invariant, action by action.                                        *)

LEMMA BeginStep ==
  ASSUME ServiceInv, NEW c \in Callers, NEW name \in {"start", "stop", "save", "on", "off", "setup"},
         NEW cfg \in Configs, NEW place \in {"check", "take", "write"},
         Begin(c, name, cfg, place), name = "stop" => place = "take", place = "check" => name = "start",
         place = "take" => name = "stop",
         name \in {"on", "off"} => cfg.on = (name = "on")
  PROVE  ServiceInv'
<1>1. /\ UNCHANGED <<file, state, server, running>> /\ At(c, "idle")
      /\ call \in [Callers -> CallType]
  BY DEF Begin, ServiceInv, Types
<1> DEFINE r == [pc |-> place, op |-> name, held |-> None, config |-> cfg,
                 alone |-> \A e \in Callers : At(e, "idle")]
<1>2. /\ r \in CallType
      /\ \A d \in Callers : [call[d] EXCEPT !.alone = FALSE] \in CallType
  BY <1>1 DEF CallType, Places
<1>3. call' = [d \in Callers |-> IF d = c THEN r ELSE [call[d] EXCEPT !.alone = FALSE]]
  BY DEF Begin
<1>4. /\ call' \in [Callers -> CallType]
      /\ call'[c] = r
      /\ \A d \in Callers \ {c} : call'[d] = [call[d] EXCEPT !.alone = FALSE]
  BY <1>2, <1>3
<1>5. \A d \in Callers \ {c} :
        /\ call'[d].pc = call[d].pc /\ call'[d].held = call[d].held /\ ~call'[d].alone
  BY <1>1, <1>4 DEF CallType
<1>6. /\ call'[c].pc = place /\ call'[c].op = name /\ call'[c].held = None
      /\ call'[c].config = cfg /\ call'[c].alone = \A e \in Callers : At(e, "idle")
  BY <1>4
<1>7. Types'
  BY <1>1, <1>4 DEF ServiceInv, Types, Listening
<1>8. call[c].held = None
  BY <1>1 DEF ServiceInv, OnePlace, At, Held
<1>9. OnePlace'
  BY <1>1, <1>5, <1>6, <1>8 DEF ServiceInv, OnePlace, At, Held, Listening
<1>10. ConnectedIsListening'
  BY <1>1 DEF ServiceInv, ConnectedIsListening, Listening
<1>12. NobodyElse'
  BY <1>5, <1>6 DEF NobodyElse, At
<1>13. Lone(c)'
  BY <1>6 DEF Lone, At, Wanted, Changing
<1>14. LoneInv'
  BY <1>5, <1>13, LoneFollows
<1> QED
  BY <1>7, <1>9, <1>10, <1>12, <1>14 DEF ServiceInv

(* A caller that holds nothing and takes nothing.                          *)
LEMMA QuietStep ==
  ASSUME ServiceInv, NEW c \in Callers, ~At(c, "idle"), Held(c) = None,
         UNCHANGED <<server, running>>, file' \in Configs,
         state' \in {"DISCONNECTED", "CONNECTING", "CONNECTED", "ERROR"},
         state' = "CONNECTED" => state = "CONNECTED",
         \/ \E place, cfg : place \in Places \ {"idle", "publish"} /\ Moved(c, place, None, cfg)
         \/ Returned(c),
         call'[c].alone => Lone(c)'
  PROVE  ServiceInv'
<1>1. /\ call' \in [Callers -> CallType] /\ Others(c) /\ Held(c)' = None
      /\ call'[c].pc # "publish"
  <2>1. CASE \E place, cfg : place \in Places \ {"idle", "publish"} /\ Moved(c, place, None, cfg)
    <3>1. PICK place, cfg : place \in Places \ {"idle", "publish"} /\ Moved(c, place, None, cfg)
      BY <2>1
    <3> QED
      BY <3>1 DEF Moved, Held
  <2>2. CASE Returned(c)
    BY <2>2 DEF Returned, Idle, Held
  <2> QED
    BY <2>1, <2>2
<1>2. NobodyElse' /\ \A d \in Callers \ {c} : ~call'[d].alone
  BY StillAlone DEF ServiceInv
<1>3. Types'
  BY <1>1 DEF ServiceInv, Types, Listening
<1>4. OnePlace'
  BY <1>1 DEF ServiceInv, OnePlace, Others, Held, At, Listening
<1>5. ConnectedIsListening'
  BY DEF ServiceInv, ConnectedIsListening, Listening
<1>7. LoneInv'
  BY <1>2, LoneFollows
<1> QED
  BY <1>2, <1>3, <1>4, <1>5, <1>7 DEF ServiceInv

(* What the places tell of a call.                                         *)
LEMMA CallFacts ==
  ASSUME ServiceInv, NEW c \in Callers
  PROVE  /\ Types /\ call[c] \in CallType /\ call[c].config \in Configs /\ file \in Configs
         /\ Held(c) \in Servers \cup {None} /\ call[c].pc \in Places
         /\ ~At(c, "close") /\ ~At(c, "publish") => Held(c) = None
         /\ call[c].alone => Lone(c)
BY DEF ServiceInv, Types, CallType, OnePlace, LoneInv, Held, At

LEMMA WriteStep ==
  ASSUME ServiceInv, NEW c \in Callers, Write(c)
  PROVE  ServiceInv'
<1>1. /\ At(c, "write") /\ Held(c) = None /\ ~At(c, "idle") /\ Types
      /\ UNCHANGED <<server, running, state>> /\ call[c].config \in Configs
      /\ file \in Configs /\ (call[c].alone => Lone(c))
      /\ state \in {"DISCONNECTED", "CONNECTING", "CONNECTED", "ERROR"}
  BY CallFacts DEF Write, At, Types
<1>2. CASE Return(c) /\ file' \in Configs
  <2>1. Returned(c)
    BY <1>1, <1>2, Returning
  <2>2. ~call'[c].alone
    BY <2>1 DEF Returned, Idle
  <2> QED
    BY <1>1, <1>2, <2>1, <2>2, QuietStep
<1>3. CASE file' = call[c].config /\ call[c].op # "setup" /\ Goto(c, "look")
  <2>1. "look" \in Places \ {"idle", "publish"} /\ "look" \in Places
    BY DEF Places
  <2>2. Moved(c, "look", None, call[c].config)
    BY <1>1, <1>3, <2>1, Going
  <2>3. call'[c].alone => Lone(c)'
    BY <1>1, <1>3, <2>2 DEF Moved, Lone, At, Wanted, Changing
  <2> QED
    BY <1>1, <1>3, <2>1, <2>2, <2>3, QuietStep
<1>4. \/ Return(c) /\ file' \in Configs
      \/ file' = call[c].config /\ call[c].op # "setup" /\ Goto(c, "look")
  BY <1>1 DEF Write
<1> QED
  BY <1>2, <1>3, <1>4

LEMMA LookStep ==
  ASSUME ServiceInv, NEW c \in Callers, Look(c)
  PROVE  ServiceInv'
<1>1. /\ At(c, "look") /\ Held(c) = None /\ ~At(c, "idle") /\ Types
      /\ UNCHANGED <<file, server, running, state>>
      /\ file \in Configs /\ (call[c].alone => Lone(c))
      /\ state \in {"DISCONNECTED", "CONNECTING", "CONNECTED", "ERROR"}
  BY CallFacts DEF Look, At, Types
<1>2. /\ "take" \in Places /\ "switch" \in Places
      /\ {"take", "switch"} \subseteq Places \ {"idle", "publish"}
  BY DEF Places
<1>3. CASE Forget(c, "take", None)
  <2>1. Moved(c, "take", None, Idle.config)
    BY <1>1, <1>2, <1>3, Forgetting
  <2>2. call'[c].alone => Lone(c)'
    BY <1>1, <2>1 DEF Moved, Lone, At, Wanted, Changing
  <2> QED
    BY <1>1, <1>2, <2>1, <2>2, QuietStep
<1>4. CASE ~(state = "CONNECTED" /\ call[c].config.complete) /\ AfterStart(c)
  <2>1. CASE Returned(c)
    <3>1. ~call'[c].alone
      BY <2>1 DEF Returned, Idle
    <3> QED
      BY <1>1, <2>1, <3>1, QuietStep
  <2>2. CASE call[c].op \in {"on", "off"} /\ Moved(c, "switch", None, Idle.config)
    <3>1. call'[c].alone => Lone(c)'
      BY <1>1, <1>4, <2>2 DEF Moved, Lone, At, Wanted, Changing
    <3> QED
      BY <1>1, <1>2, <2>2, <3>1, QuietStep
  <2> QED
    BY <1>1, <1>4, <2>1, <2>2, AfterStarting
<1> QED
  BY <1>3, <1>4 DEF Look

LEMMA CheckStep ==
  ASSUME ServiceInv, NEW c \in Callers, Check(c)
  PROVE  ServiceInv'
<1>1. /\ At(c, "check") /\ Held(c) = None /\ ~At(c, "idle") /\ Types
      /\ UNCHANGED <<file, server, running>>
      /\ file \in Configs /\ (call[c].alone => Lone(c))
      /\ state \in {"DISCONNECTED", "CONNECTING", "CONNECTED", "ERROR"}
  BY CallFacts DEF Check, At, Types
<1>2. /\ "load" \in Places /\ "switch" \in Places
      /\ {"load", "switch"} \subseteq Places \ {"idle", "publish"}
  BY DEF Places
<1>3. CASE state # "CONNECTED" /\ state' = "CONNECTING" /\ Goto(c, "load")
  <2>1. Moved(c, "load", None, call[c].config)
    BY <1>1, <1>2, <1>3, Going
  <2>2. call'[c].alone => Lone(c)'
    BY <1>1, <1>3, <2>1 DEF Moved, Lone, At, Wanted, Changing
  <2> QED
    BY <1>1, <1>2, <1>3, <2>1, <2>2, QuietStep
<1>4. CASE state = "CONNECTED" /\ AfterStart(c) /\ UNCHANGED state
  <2>1. CASE Returned(c)
    <3>1. ~call'[c].alone
      BY <2>1 DEF Returned, Idle
    <3> QED
      BY <1>1, <1>4, <2>1, <3>1, QuietStep
  <2>2. CASE call[c].op \in {"on", "off"} /\ Moved(c, "switch", None, Idle.config)
    <3>1. call'[c].alone => Lone(c)'
      BY <1>1, <1>4, <2>2 DEF Moved, Lone, At, Wanted, Changing
    <3> QED
      BY <1>1, <1>2, <1>4, <2>2, <3>1, QuietStep
  <2> QED
    BY <1>1, <1>4, <2>1, <2>2, AfterStarting
<1> QED
  BY <1>3, <1>4 DEF Check

LEMMA LoadStep ==
  ASSUME ServiceInv, NEW c \in Callers, Load(c)
  PROVE  ServiceInv'
<1>1. /\ At(c, "load") /\ Held(c) = None /\ ~At(c, "idle") /\ Types
      /\ UNCHANGED <<file, server, running, state>>
      /\ file \in Configs /\ (call[c].alone => Lone(c))
      /\ state \in {"DISCONNECTED", "CONNECTING", "CONNECTED", "ERROR"}
  BY CallFacts DEF Load, At, Types
<1>2. /\ "listen" \in Places /\ "error" \in Places
      /\ {"listen", "error"} \subseteq Places \ {"idle", "publish"}
  BY DEF Places
<1>3. CASE call' = [call EXCEPT ![c].pc = "listen", ![c].config = file]
  <2>1. Moved(c, "listen", None, file)
    BY <1>1, <1>2, <1>3, Moving DEF Held
  <2>2. call'[c].alone => Lone(c)'
    BY <1>1, <2>1 DEF Moved, Lone, At, Wanted, Changing
  <2> QED
    BY <1>1, <1>2, <2>1, <2>2, QuietStep
<1>4. CASE Goto(c, "error")
  <2>1. Moved(c, "error", None, call[c].config)
    BY <1>1, <1>2, <1>4, Going
  <2>2. call'[c].alone => Lone(c)'
    BY <1>1, <2>1 DEF Moved, Lone, At, Wanted, Changing
  <2> QED
    BY <1>1, <1>2, <2>1, <2>2, QuietStep
<1> QED
  BY <1>3, <1>4 DEF Load

LEMMA SetErrorStep ==
  ASSUME ServiceInv, NEW c \in Callers, SetError(c)
  PROVE  ServiceInv'
<1>1. /\ At(c, "error") /\ Held(c) = None /\ ~At(c, "idle") /\ Types
      /\ UNCHANGED <<file, server, running>> /\ state' = "ERROR"
      /\ file \in Configs /\ (call[c].alone => Lone(c)) /\ AfterStart(c)
  BY CallFacts DEF SetError, At, Types
<1>2. "switch" \in Places \ {"idle", "publish"}
  BY DEF Places
<1>3. CASE Returned(c)
  <2>1. ~call'[c].alone
    BY <1>3 DEF Returned, Idle
  <2> QED
    BY <1>1, <1>3, <2>1, QuietStep
<1>4. CASE call[c].op \in {"on", "off"} /\ Moved(c, "switch", None, Idle.config)
  <2>1. call'[c].alone => Lone(c)'
    BY <1>1, <1>4 DEF Moved, Lone, At, Wanted, Changing
  <2> QED
    BY <1>1, <1>2, <1>4, <2>1, QuietStep
<1> QED
  BY <1>1, <1>3, <1>4, AfterStarting

(* Stop takes the server out of API.server into its hands.                 *)
LEMMA TakeStep ==
  ASSUME ServiceInv, NEW c \in Callers, Take(c)
  PROVE  ServiceInv'
<1>1. /\ At(c, "take") /\ Held(c) = None /\ ~At(c, "idle") /\ Types
      /\ UNCHANGED <<file, running>> /\ server' = None /\ state' = "DISCONNECTED"
      /\ call[c].config \in Configs /\ server \in Servers \cup {None}
      /\ (call[c].alone => Lone(c))
  BY CallFacts DEF Take, At, Types
<1>2. "close" \in Places \ {"idle"} /\ "close" \in Places
  BY DEF Places
<1>3. Moved(c, "close", server, Idle.config)
  BY <1>1, <1>2, Forgetting DEF Take
<1>4. /\ Others(c) /\ Held(c)' = server /\ At(c, "close")'
      /\ \A d \in Callers \ {c} : Held(d)' = Held(d) /\ call'[d] = call[d]
  BY <1>3 DEF Moved, Others, Held, At
<1>5. NobodyElse' /\ \A d \in Callers \ {c} : ~call'[d].alone
  BY <1>1, <1>2, <1>3, StillAlone DEF ServiceInv
<1>6. Types'
  BY <1>1, <1>3 DEF Types, Moved, Listening
<1>7. OnePlace'
  BY <1>1, <1>4 DEF ServiceInv, OnePlace, At, Listening
<1>8. ConnectedIsListening'
  BY <1>1 DEF ServiceInv, ConnectedIsListening, Listening
<1>10. call'[c].alone => Lone(c)'
  BY <1>1, <1>3 DEF Moved, Lone, At, Wanted, Changing
<1>11. LoneInv'
  BY <1>5, <1>10, LoneFollows
<1> QED
  BY <1>5, <1>6, <1>7, <1>8, <1>11 DEF ServiceInv

(* And closes it; nobody else has it.                                      *)
LEMMA CloseStep ==
  ASSUME ServiceInv, NEW c \in Callers, Close(c)
  PROVE  ServiceInv' /\ Listening' = Listening \ {Held(c)}
<1>1. /\ At(c, "close") /\ ~At(c, "idle") /\ Types
      /\ UNCHANGED <<file, state, server>>
      /\ call[c].config \in Configs /\ (call[c].alone => Lone(c))
  BY CallFacts DEF Close, At
<1>2. "check" \in Places \ {"idle"} /\ "check" \in Places
  BY DEF Places
<1>3. \/ call[c].op # "stop" /\ Moved(c, "check", None, Idle.config)
      \/ Returned(c)
  BY <1>1, <1>2, Forgetting, Returning DEF Close
<1>4. /\ Listening' = Listening \ {Held(c)}
      /\ \A s \in Listening' : running'[s] = running[s]
      /\ running' = [s \in Listening' |-> running'[s]]
  BY DEF Close, Restrict, Listening, Held
<1>5. /\ Others(c) /\ Held(c)' = None /\ ~At(c, "publish")' /\ call' \in [Callers -> CallType]
      /\ \A d \in Callers \ {c} : Held(d)' = Held(d) /\ call'[d] = call[d]
  BY <1>3 DEF Moved, Returned, Idle, Others, Held, At
<1>6. NobodyElse' /\ \A d \in Callers \ {c} : ~call'[d].alone
  BY <1>1, <1>2, <1>3, StillAlone DEF ServiceInv
<1>7. Types'
  BY <1>1, <1>4, <1>5 DEF Types
<1>8. OnePlace'
  <2>1. ASSUME NEW d \in Callers, At(d, "publish")' PROVE Held(d)' \in Listening'
    <3>1. d # c /\ Held(d)' = Held(d) /\ At(d, "publish")
      BY <1>5, <2>1 DEF At
    <3>2. Held(d) \in Listening /\ Held(d) # None
      BY <1>1, <3>1, ServiceAssumption DEF ServiceInv, OnePlace, Types
    <3>3. Held(d) # Held(c)
      BY <3>1, <3>2 DEF ServiceInv, OnePlace
    <3> QED
      BY <1>4, <3>1, <3>2, <3>3
  <2> QED
    BY <1>1, <1>5, <2>1 DEF ServiceInv, OnePlace, At
<1>10. ConnectedIsListening'
  <2> SUFFICES ASSUME state = "CONNECTED" PROVE server \in Listening \ {Held(c)}
    BY <1>1, <1>4 DEF ConnectedIsListening
  <2>1. server \in Listening /\ server # None
    BY <1>1, ServiceAssumption DEF ServiceInv, ConnectedIsListening, Types
  <2> QED
    BY <2>1 DEF ServiceInv, OnePlace
<1>12. call'[c].alone => Lone(c)'
  BY <1>1, <1>3 DEF Moved, Returned, Idle, Lone, At, Wanted, Changing
<1>13. LoneInv'
  BY <1>6, <1>12, LoneFollows
<1> QED
  BY <1>4, <1>6, <1>7, <1>8, <1>10, <1>13 DEF ServiceInv

(* A new server listens beside the others.                                 *)
LEMMA ListenStep ==
  ASSUME ServiceInv, NEW c \in Callers, Listen(c)
  PROVE  ServiceInv'
<1>1. /\ At(c, "listen") /\ Held(c) = None /\ ~At(c, "idle") /\ Types
      /\ UNCHANGED <<file, state, server>>
      /\ call[c].config \in Configs /\ file \in Configs /\ (call[c].alone => Lone(c))
      /\ state \in {"DISCONNECTED", "CONNECTING", "CONNECTED", "ERROR"}
  BY CallFacts DEF Listen, At, Types
<1>2. /\ {"publish", "error"} \subseteq Places \ {"idle"} /\ "publish" \in Places
      /\ "error" \in Places \ {"idle", "publish"} /\ "error" \in Places
  BY DEF Places
<1> DEFINE plain == Idle.config
<1>3. CASE Forget(c, "error", None) /\ UNCHANGED running
  <2>1. Moved(c, "error", None, plain)
    BY <1>1, <1>2, <1>3, Forgetting
  <2>2. call'[c].alone => Lone(c)'
    BY <1>1, <2>1 DEF Moved, Lone, At, Wanted, Changing
  <2> QED
    BY <1>1, <1>2, <1>3, <2>1, <2>2, QuietStep
<1>4. ASSUME NEW s \in Servers \ Listening, s # server, \A d \in Callers : Held(d) # s,
             running' = [t \in Listening \cup {s} |-> IF t = s THEN call[c].config ELSE running[t]],
             Forget(c, "publish", s)
      PROVE  ServiceInv'
  <2>1. Moved(c, "publish", s, plain)
    BY <1>1, <1>2, <1>4, Forgetting
  <2>2. /\ Listening' = Listening \cup {s} /\ running'[s] = call[c].config
        /\ \A t \in Listening : running'[t] = running[t]
        /\ running' = [t \in Listening' |-> running'[t]]
    BY <1>4 DEF Listening
  <2>3. /\ Others(c) /\ Held(c)' = s /\ At(c, "publish")' /\ call' \in [Callers -> CallType]
        /\ \A d \in Callers \ {c} : Held(d)' = Held(d) /\ call'[d] = call[d]
    BY <2>1 DEF Moved, Others, Held, At
  <2>5. NobodyElse' /\ \A d \in Callers \ {c} : ~call'[d].alone
    BY <1>1, <1>2, <2>1, StillAlone DEF ServiceInv
  <2>6. Types'
    BY <1>1, <2>2, <2>3 DEF Types
  <2>7. OnePlace'
    BY <1>1, <1>4, <2>2, <2>3 DEF ServiceInv, OnePlace, At
  <2>8. ConnectedIsListening'
    BY <1>1, <2>2 DEF ServiceInv, ConnectedIsListening
  <2>10. call'[c].alone => Lone(c)'
    BY <1>1, <2>1, <2>2, <2>3 DEF Moved, Lone, At, Wanted, Changing
  <2>11. LoneInv'
    BY <2>5, <2>10, LoneFollows
  <2> QED
    BY <2>5, <2>6, <2>7, <2>8, <2>11 DEF ServiceInv
<1> QED
  BY <1>3, <1>4 DEF Listen, Held

(* What is published listens.                                              *)
LEMMA PublishStep ==
  ASSUME ServiceInv, NEW c \in Callers, Publish(c)
  PROVE  ServiceInv'
<1>1. /\ At(c, "publish") /\ ~At(c, "idle") /\ Types
      /\ UNCHANGED <<file, running>> /\ server' = Held(c) /\ state' = "CONNECTED"
      /\ Held(c) \in Listening /\ Held(c) \in Servers /\ AfterStart(c)
      /\ (call[c].alone => Lone(c))
  BY CallFacts DEF Publish, At, Held, ServiceInv, OnePlace, Types
<1>2. "switch" \in Places \ {"idle"}
  BY DEF Places
<1>3. \/ call[c].op \in {"on", "off"} /\ Moved(c, "switch", None, Idle.config)
      \/ Returned(c)
  BY <1>1, AfterStarting
<1>4. /\ Others(c) /\ Held(c)' = None /\ ~At(c, "publish")' /\ call' \in [Callers -> CallType]
      /\ \A d \in Callers \ {c} : Held(d)' = Held(d) /\ call'[d] = call[d]
  BY <1>3 DEF Moved, Returned, Idle, Others, Held, At
<1>5. NobodyElse' /\ \A d \in Callers \ {c} : ~call'[d].alone
  BY <1>1, <1>2, <1>3, StillAlone DEF ServiceInv
<1>6. Types'
  BY <1>1, <1>4 DEF Types, Listening
<1>7. OnePlace'
  <2>1. \A d \in Callers \ {c} : Held(d) # None => Held(d) # Held(c)
    BY DEF ServiceInv, OnePlace
  <2> QED
    BY <1>1, <1>4, <2>1 DEF ServiceInv, OnePlace, At, Listening
<1>8. ConnectedIsListening'
  BY <1>1 DEF ServiceInv, ConnectedIsListening, Listening
<1>10. call'[c].alone => Lone(c)'
  BY <1>1, <1>3 DEF Moved, Returned, Idle, Lone, At, Wanted, Changing
<1>11. LoneInv'
  BY <1>5, <1>10, LoneFollows
<1> QED
  BY <1>5, <1>6, <1>7, <1>8, <1>11 DEF ServiceInv

LEMMA SwitchStep ==
  ASSUME ServiceInv, NEW c \in Callers, Switch(c)
  PROVE  /\ ServiceInv'
         /\ server \in Listening => running'[server] = [running[server] EXCEPT !.on = (call[c].op = "on")]
<1>1. /\ At(c, "switch") /\ Held(c) = None /\ ~At(c, "idle") /\ Types /\ Return(c)
      /\ UNCHANGED <<file, state, server>>
  BY CallFacts DEF Switch, At
<1>2. Returned(c)
  BY <1>1, Returning
<1>3. /\ Listening' = Listening
      /\ \A s \in Listening : running[s] \in Configs
      /\ \A s \in Listening :
           running'[s] = IF s = server THEN [running[s] EXCEPT !.on = (call[c].op = "on")]
                         ELSE running[s]
      /\ running' = [s \in Listening' |-> running'[s]]
  BY <1>1, ServiceAssumption DEF Switch, Types, Listening
<1>4. \A s \in Listening : running'[s] \in Configs
  BY <1>3 DEF Configs
<1>5. /\ Others(c) /\ Held(c)' = None /\ ~At(c, "publish")' /\ call' \in [Callers -> CallType]
      /\ \A d \in Callers \ {c} : Held(d)' = Held(d) /\ call'[d] = call[d]
      /\ ~call'[c].alone
  BY <1>2 DEF Returned, Idle, Others, Held, At
<1>6. NobodyElse' /\ \A d \in Callers \ {c} : ~call'[d].alone
  BY <1>1, <1>2, StillAlone DEF ServiceInv
<1>7. Types'
  BY <1>1, <1>3, <1>4, <1>5 DEF Types
<1>8. OnePlace'
  BY <1>1, <1>3, <1>5 DEF ServiceInv, OnePlace, At
<1>9. ConnectedIsListening'
  BY <1>1, <1>3 DEF ServiceInv, ConnectedIsListening
<1>11. LoneInv'
  BY <1>5, <1>6, LoneFollows
<1> QED
  BY <1>3, <1>6, <1>7, <1>8, <1>9, <1>11 DEF ServiceInv
-----------------------------------------------------------------------------
LEMMA InitService == Init => ServiceInv
<1> SUFFICES ASSUME Init PROVE ServiceInv
  OBVIOUS
<1>1. /\ Listening = {} /\ server = None /\ state = "DISCONNECTED" /\ file \in Configs
      /\ \A c \in Callers : call[c] = Idle
      /\ call \in [Callers -> CallType]
      /\ running = [s \in Listening |-> running[s]]
  BY IdleType DEF Init, Listening
<1>2. Types
  BY <1>1 DEF Types
<1>3. OnePlace /\ NobodyElse /\ LoneInv /\ ConnectedIsListening
  BY <1>1 DEF OnePlace, NobodyElse, LoneInv, ConnectedIsListening,
              Held, At, Idle
<1> QED
  BY <1>2, <1>3 DEF ServiceInv

LEMMA CallStep ==
  ASSUME ServiceInv, NEW c \in Callers, Call(c)
  PROVE  ServiceInv'
<1>1. file \in Configs /\ Idle.config \in Configs
  BY IdleType DEF ServiceInv, Types
<1>2. CASE BeginStart(c)
  BY <1>1, <1>2, BeginStep DEF BeginStart
<1>3. CASE BeginStop(c)
  BY <1>1, <1>3, BeginStep DEF BeginStop
<1>4. CASE SetMode(c)
  <2>1. PICK mode \in Modes : Begin(c, "save", [file EXCEPT !.mode = mode], "write")
    BY <1>4 DEF SetMode
  <2>2. [file EXCEPT !.mode = mode] \in Configs
    BY <1>1 DEF Configs
  <2> QED
    BY <2>1, <2>2, BeginStep
<1>5. CASE ToggleAccount(c)
  <2>1. /\ [file EXCEPT !.on = TRUE] \in Configs /\ [file EXCEPT !.on = FALSE] \in Configs
        /\ [file EXCEPT !.on = TRUE].on = TRUE /\ [file EXCEPT !.on = FALSE].on = FALSE
    BY <1>1 DEF Configs
  <2> QED
    BY <1>5, <2>1, BeginStep DEF ToggleAccount
<1>6. CASE SaveConfig(c)
  BY <1>6, BeginStep DEF SaveConfig
<1>7. CASE MarkSetupCompleted(c)
  BY <1>1, <1>7, BeginStep DEF MarkSetupCompleted
<1> QED
  BY <1>2, <1>3, <1>4, <1>5, <1>6, <1>7 DEF Call

LEMMA StepService == ServiceInv /\ [Next]_vars => ServiceInv'
<1>1. ASSUME ServiceInv, NEW c \in Callers, Call(c) \/ Work(c) PROVE ServiceInv'
  BY <1>1, CallStep, WriteStep, LookStep, TakeStep, CloseStep, CheckStep, LoadStep, ListenStep,
     SetErrorStep, PublishStep, SwitchStep DEF Work
<1>2. ASSUME ServiceInv, UNCHANGED vars PROVE ServiceInv'
  BY <1>2
  DEF vars, ServiceInv, Types, OnePlace, NobodyElse, LoneInv, Lone, Wanted,
      ConnectedIsListening, Held, At, Listening
<1> QED
  BY <1>1, <1>2 DEF Next

(* However many calls overlap, ServiceInv holds.                           *)
THEOREM ServiceInvariance == Spec => []ServiceInv
BY InitService, StepService, PTL DEF Spec

(* The screen never shows a connection that no listener serves: Start      *)
(* publishes only a server that listens, and Stop takes the pointer back   *)
(* and the status with it before it closes one.                            *)
THEOREM ConnectionIsServed == Spec => []ConnectedIsListening
<1>1. ServiceInv => ConnectedIsListening
  BY DEF ServiceInv
<1> QED
  BY <1>1, ServiceInvariance, PTL

(* The step in which a lone call returns is its own.                       *)
LEMMA LoneReturn ==
  ASSUME ServiceInv, [Next]_vars, NEW c \in Callers, ~At(c, "idle"), call'[c].pc = "idle",
         call[c].alone
  PROVE  Work(c)
<1>1. ~(UNCHANGED vars)
  BY DEF vars, At
<1>2. PICK d \in Callers : Call(d) \/ Work(d)
  BY <1>1 DEF Next
<1>3. ASSUME NEW name, NEW cfg, NEW place, place # "idle", Begin(d, name, cfg, place) PROVE FALSE
  <2>1. call'[c].pc = IF c = d THEN place ELSE call[c].pc
    BY <1>3 DEF Begin, ServiceInv, Types, CallType
  <2> QED
    BY <1>3, <2>1 DEF At
<1>4. ~Call(d)
  BY <1>3 DEF Call, BeginStart, BeginStop, SetMode, ToggleAccount, SaveConfig, MarkSetupCompleted
<1>5. CASE d # c
  <2>1. At(d, "idle")
    BY <1>5 DEF ServiceInv, NobodyElse
  <2> QED
    BY <1>2, <1>4, <2>1 DEF Work, Write, Look, Take, Close, Check, Load, Listen, SetError,
                            Publish, Switch, At
<1> QED
  BY <1>2, <1>4, <1>5

(* A Stop that ran alone leaves only what nobody could have stopped.       *)
THEOREM LoneStopLeavesOrphans == Spec => LoneStopStops
<1>1. ASSUME ServiceInv, [Next]_vars, NEW c \in Callers, Returns(c, {"stop"})
      PROVE  Listening' \subseteq Orphans
  <2>1. /\ ~At(c, "idle") /\ call'[c].pc = "idle" /\ call[c].op = "stop" /\ call[c].alone
        /\ Work(c) /\ Lone(c) /\ Types
    BY <1>1, LoneReturn DEF Returns, ServiceInv, LoneInv
  <2>2. CASE Take(c)
    <3>1. Moved(c, "close", server, Idle.config)
      BY <2>1, <2>2, Forgetting DEF Take, Types, Places
    <3> QED
      BY <2>1, <3>1 DEF Moved
  <2>3. CASE Close(c)
    <3>1. server = None /\ Listening' = Listening \ {Held(c)}
      BY <1>1, <2>1, <2>3, CloseStep DEF Lone, Close
    <3>2. ASSUME NEW s \in Listening, s # Held(c), NEW d \in Callers PROVE Held(d) # s
      <4>1. s # None
        BY <2>1, ServiceAssumption DEF Types
      <4>2. d # c => Held(d) = None
        BY <1>1, <2>1 DEF ServiceInv, NobodyElse, OnePlace, At
      <4> QED
        BY <3>2, <4>1, <4>2
    <3>3. \A s \in Listening : s # None
      BY <2>1, ServiceAssumption DEF Types
    <3> QED
      BY <3>1, <3>2, <3>3 DEF Orphans, Held
  <2> QED
    BY <2>1, <2>2, <2>3
    DEF Lone, Work, Write, Look, Check, Load, Listen, SetError, Publish, Switch, At
<1>2. ServiceInv /\ [Next]_vars
      => [\A c \in Callers : Returns(c, {"stop"}) => Listening' \subseteq Orphans]_vars
  BY <1>1
<1> QED
  BY <1>2, ServiceInvariance, PTL DEF Spec, LoneStopStops
-----------------------------------------------------------------------------
(* What a step does to the starts in progress, and to what is out of reach.*)

Starts == {"load", "listen", "error", "publish"}

LEMMA Placed ==
  ASSUME Types, NEW c \in Callers,
         \/ \E place, holds, cfg : Moved(c, place, holds, cfg)
         \/ Returned(c)
  PROVE  /\ \A d \in Callers \ {c} : Held(d)' = Held(d)
         /\ Starting' = IF call'[c].pc \in Starts THEN Starting \cup {c} ELSE Starting \ {c}
<1>1. Others(c)
  BY DEF Moved, Returned
<1> QED
  BY <1>1 DEF Starting, Starts, Others, Held

(* The steps that begin no start and take no server.                       *)
LEMMA BeginKeeps ==
  ASSUME ServiceInv, Apart, NEW c \in Callers, Call(c)
  PROVE  Apart' /\ Orphans' = Orphans
<1>1. ASSUME NEW name, NEW cfg, NEW place \in {"check", "take", "write"}, Begin(c, name, cfg, place)
      PROVE  /\ UNCHANGED <<state, server, running, crossed>>
             /\ \A d \in Callers : call'[d].held = call[d].held
             /\ Starting' = Starting
  <2>1. /\ UNCHANGED <<state, server, running, crossed>> /\ At(c, "idle")
        /\ call \in [Callers -> CallType] /\ call[c].held = None
    BY <1>1 DEF Begin, ServiceInv, Types, OnePlace, At, Held
  <2>2. /\ call'[c].pc = place /\ call'[c].held = None
        /\ \A d \in Callers \ {c} : call'[d] = [call[d] EXCEPT !.alone = FALSE]
    BY <1>1 DEF Begin
  <2>3. \A d \in Callers \ {c} : call'[d].pc = call[d].pc /\ call'[d].held = call[d].held
    BY <2>1, <2>2 DEF CallType
  <2> QED
    BY <2>1, <2>2, <2>3 DEF Starting, At
<1>2. /\ UNCHANGED <<state, server, running, crossed>>
      /\ \A d \in Callers : call'[d].held = call[d].held
      /\ Starting' = Starting
  BY <1>1 DEF Call, BeginStart, BeginStop, SetMode, ToggleAccount, SaveConfig, MarkSetupCompleted
<1> QED
  BY <1>2 DEF Apart, Orphans, Listening

(* The other steps that hold nothing before or after.                      *)
LEMMA EmptyHanded ==
  ASSUME ServiceInv, NEW c \in Callers, UNCHANGED <<server, running>>, Held(c) = None,
         \/ \E place, cfg : Moved(c, place, None, cfg)
         \/ Returned(c)
  PROVE  Orphans' = Orphans
<1>1. Others(c) /\ Held(c)' = None
  <2>1. CASE Returned(c)
    BY <2>1 DEF Returned, Idle, Held
  <2>2. CASE \E place, cfg : Moved(c, place, None, cfg)
    <3>1. PICK place, cfg : Moved(c, place, None, cfg)
      BY <2>2
    <3> QED
      BY <3>1 DEF Moved, Held
  <2> QED
    BY <2>1, <2>2
<1>2. \A d \in Callers : Held(d)' = Held(d)
  BY <1>1 DEF Others, Held
<1> QED
  BY <1>2 DEF Orphans, Listening, Held

LEMMA WorkKeeps ==
  ASSUME ServiceInv, Apart, NEW c \in Callers, Work(c)
  PROVE  Apart' /\ (Orphans' \subseteq Orphans \/ crossed)
<1>1. Types /\ call[c].config \in Configs /\ file \in Configs /\ call \in [Callers -> CallType]
  BY CallFacts DEF Types
<1>2. /\ {"look", "take", "close", "check", "switch"} \subseteq Places \ Starts
      /\ Starts \subseteq Places
  BY DEF Places, Starts
<1>3. CASE Write(c)
  <2>1. /\ Held(c) = None /\ c \notin Starting /\ UNCHANGED <<state, server, running, crossed>>
    BY <1>3, CallFacts DEF Write, At, Starting
  <2>2. Moved(c, "look", None, call[c].config) \/ Returned(c)
    BY <1>1, <1>2, <1>3, <2>1, Going, Returning DEF Write
  <2>3. call'[c].pc \notin Starts
    BY <1>2, <2>2 DEF Moved, Returned, Idle, Starts
  <2>4. Starting' = Starting
    BY <1>1, <2>1, <2>2, <2>3, Placed
  <2> QED
    BY <2>1, <2>2, <2>4, EmptyHanded DEF Apart
<1>4. CASE Look(c)
  <2>1. /\ Held(c) = None /\ c \notin Starting /\ UNCHANGED <<state, server, running, crossed>>
    BY <1>4, CallFacts DEF Look, At, Starting
  <2>2. Moved(c, "take", None, Idle.config) \/ Moved(c, "switch", None, Idle.config) \/ Returned(c)
    BY <1>1, <1>2, <1>4, Forgetting, AfterStarting DEF Look
  <2>3. call'[c].pc \notin Starts
    BY <2>2 DEF Moved, Returned, Idle, Starts
  <2>4. Starting' = Starting
    BY <1>1, <2>1, <2>2, <2>3, Placed
  <2> QED
    BY <2>1, <2>2, <2>4, EmptyHanded DEF Apart
<1>5. CASE Take(c)
  <2>1. /\ Held(c) = None /\ c \notin Starting /\ UNCHANGED running /\ server' = None
        /\ crossed' = (crossed /\ Starting # {}) /\ server \in Servers \cup {None}
    BY <1>1, <1>5, CallFacts DEF Take, At, Starting, Types
  <2>2. Moved(c, "close", server, Idle.config)
    BY <1>1, <1>2, <1>5, <2>1, Forgetting DEF Take
  <2>3. call'[c].pc \notin Starts /\ Held(c)' = server
    BY <2>2 DEF Moved, Starts, Held
  <2>4. Starting' = Starting /\ \A d \in Callers \ {c} : Held(d)' = Held(d)
    BY <1>1, <2>1, <2>2, <2>3, Placed
  <2>5. Orphans' \subseteq Orphans
    <3>1. ASSUME NEW s \in Listening, s # Held(c)' PROVE s # server /\ s # Held(c)
      BY <1>1, <2>1, <2>3, <3>1, ServiceAssumption DEF Types
    <3> QED
      BY <2>1, <2>4, <3>1 DEF Orphans, Listening, Held
  <2> QED
    BY <2>1, <2>4, <2>5 DEF Apart
<1>6. CASE Close(c)
  <2>1. /\ c \notin Starting /\ UNCHANGED <<state, server, crossed>>
        /\ Listening' = Listening \ {Held(c)}
    BY <1>6, CloseStep DEF Close, At, Starting
  <2>2. Moved(c, "check", None, Idle.config) \/ Returned(c)
    BY <1>1, <1>2, <1>6, Forgetting, Returning DEF Close
  <2>3. call'[c].pc \notin Starts
    BY <2>2 DEF Moved, Returned, Idle, Starts
  <2>4. Starting' = Starting /\ \A d \in Callers \ {c} : Held(d)' = Held(d)
    BY <1>1, <2>1, <2>2, <2>3, Placed
  <2>5. Orphans' \subseteq Orphans
    BY <2>1, <2>4 DEF Orphans, Held
  <2> QED
    BY <2>1, <2>4, <2>5 DEF Apart
<1>7. CASE Check(c)
  <2>1. /\ Held(c) = None /\ c \notin Starting /\ UNCHANGED <<server, running>>
    BY <1>7, CallFacts DEF Check, At, Starting
  <2>2. CASE state = "CONNECTED" /\ AfterStart(c) /\ UNCHANGED <<state, crossed>>
    <3>1. Moved(c, "switch", None, Idle.config) \/ Returned(c)
      BY <1>1, <2>2, AfterStarting
    <3>2. call'[c].pc \notin Starts
      BY <3>1 DEF Moved, Returned, Idle, Starts
    <3>3. Starting' = Starting
      BY <1>1, <2>1, <3>1, <3>2, Placed
    <3> QED
      BY <2>1, <2>2, <3>1, <3>3, EmptyHanded DEF Apart
  <2>3. CASE /\ state # "CONNECTED" /\ Goto(c, "load")
             /\ crossed' = (crossed \/ Starting # {})
    <3>1. Moved(c, "load", None, call[c].config)
      BY <1>1, <1>2, <2>1, <2>3, Going DEF Starts
    <3>2. call'[c].pc \in Starts
      BY <3>1 DEF Moved, Starts
    <3>3. Starting' = Starting \cup {c}
      BY <1>1, <3>1, <3>2, Placed
    <3> QED
      BY <2>1, <2>3, <3>1, <3>3, EmptyHanded DEF Apart
  <2> QED
    BY <1>7, <2>2, <2>3 DEF Check
<1>8. CASE Load(c)
  <2>1. /\ Held(c) = None /\ c \in Starting /\ UNCHANGED <<state, server, running, crossed>>
    BY <1>8, CallFacts DEF Load, At, Starting
  <2>2. Moved(c, "listen", None, file) \/ Moved(c, "error", None, call[c].config)
    BY <1>1, <1>2, <1>8, <2>1, Going, Moving DEF Load, Starts, Held
  <2>3. call'[c].pc \in Starts
    BY <2>2 DEF Moved, Starts
  <2>4. Starting' = Starting
    BY <1>1, <2>1, <2>2, <2>3, Placed
  <2> QED
    BY <2>1, <2>2, <2>4, EmptyHanded DEF Apart
<1>9. CASE Listen(c)
  <2>1. /\ Held(c) = None /\ c \in Starting /\ UNCHANGED <<state, server, crossed>>
    BY <1>9, CallFacts DEF Listen, At, Starting
  <2>2. CASE Forget(c, "error", None) /\ UNCHANGED running
    <3>1. Moved(c, "error", None, Idle.config)
      BY <1>1, <1>2, <2>2, Forgetting DEF Starts
    <3>2. call'[c].pc \in Starts
      BY <3>1 DEF Moved, Starts
    <3>3. Starting' = Starting
      BY <1>1, <2>1, <3>1, <3>2, Placed
    <3> QED
      BY <2>1, <2>2, <3>1, <3>3, EmptyHanded DEF Apart
  <2>3. ASSUME NEW s \in Servers \ Listening, Forget(c, "publish", s),
               Listening' = Listening \cup {s}
        PROVE  Apart' /\ Orphans' \subseteq Orphans
    <3>1. Moved(c, "publish", s, Idle.config)
      BY <1>1, <1>2, <2>3, Forgetting DEF Starts
    <3>2. call'[c].pc \in Starts /\ Held(c)' = s
      BY <3>1 DEF Moved, Starts, Held
    <3>3. Starting' = Starting /\ \A d \in Callers \ {c} : Held(d)' = Held(d)
      BY <1>1, <2>1, <3>1, <3>2, Placed
    <3>4. \A t \in Listening : t # Held(c)
      BY <1>1, <2>1, ServiceAssumption DEF Types
    <3>5. Orphans' \subseteq Orphans
      BY <2>1, <2>3, <3>2, <3>3, <3>4 DEF Orphans, Held
    <3> QED
      BY <2>1, <3>3, <3>5 DEF Apart
  <2> QED
    BY <1>9, <2>2, <2>3 DEF Listen, Listening
<1>10. CASE SetError(c)
  <2>1. /\ Held(c) = None /\ c \in Starting /\ UNCHANGED <<server, running, crossed>>
    BY <1>10, CallFacts DEF SetError, At, Starting
  <2>2. Moved(c, "switch", None, Idle.config) \/ Returned(c)
    BY <1>1, <1>10, AfterStarting DEF SetError
  <2>3. call'[c].pc \notin Starts
    BY <2>2 DEF Moved, Returned, Idle, Starts
  <2>4. Starting' = Starting \ {c}
    BY <1>1, <2>2, <2>3, Placed
  <2> QED
    BY <2>1, <2>2, <2>4, EmptyHanded DEF Apart
<1>11. CASE Publish(c)
  <2>1. /\ c \in Starting /\ UNCHANGED <<running, crossed>>
        /\ server' = Held(c) /\ state' = "CONNECTED"
    BY <1>11 DEF Publish, At, Starting, Held
  <2>2. Moved(c, "switch", None, Idle.config) \/ Returned(c)
    BY <1>1, <1>11, AfterStarting DEF Publish
  <2>3. call'[c].pc \notin Starts
    BY <2>2 DEF Moved, Returned, Idle, Starts
  <2>4. Starting' = Starting \ {c} /\ \A d \in Callers \ {c} : Held(d)' = Held(d)
    BY <1>1, <2>2, <2>3, Placed
  <2>5. ~crossed => server = None
    BY <2>1 DEF Apart
  <2>6. \A s \in Listening : s # None
    BY <1>1, ServiceAssumption DEF Types
  <2>7. ~crossed => Orphans' \subseteq Orphans
    BY <2>1, <2>4, <2>5, <2>6 DEF Orphans, Listening, Held
  <2> QED
    BY <2>1, <2>4, <2>7 DEF Apart
<1>12. CASE Switch(c)
  <2>1. /\ Held(c) = None /\ c \notin Starting /\ UNCHANGED <<state, server, crossed>>
        /\ Listening' = Listening /\ Return(c)
    BY <1>1, <1>12, CallFacts DEF Switch, At, Starting, Listening, Types
  <2>2. Returned(c)
    BY <1>1, <2>1, Returning
  <2>3. call'[c].pc \notin Starts /\ Held(c)' = None
    BY <2>2 DEF Returned, Idle, Starts, Held
  <2>4. Starting' = Starting /\ \A d \in Callers : Held(d)' = Held(d)
    BY <1>1, <2>1, <2>2, <2>3, Placed
  <2>5. Orphans' = Orphans
    BY <2>1, <2>4 DEF Orphans, Held
  <2> QED
    BY <2>1, <2>4, <2>5 DEF Apart
<1> QED
  BY <1>3, <1>4, <1>5, <1>6, <1>7, <1>8, <1>9, <1>10, <1>11, <1>12 DEF Work

(* A server gets out of reach only behind two starts that overlapped.      *)
THEOREM OrphansNeedOverlap == Spec => OrphansOnlyBehindOverlap
<1>1. Init => Apart
  BY DEF Init, Apart, Starting, Idle
<1>2. ServiceInv /\ Apart /\ [Next]_vars => Apart' /\ [Orphans' \subseteq Orphans \/ crossed]_vars
  <2>1. ASSUME ServiceInv, Apart, NEW c \in Callers, Call(c) \/ Work(c)
        PROVE  Apart' /\ (Orphans' \subseteq Orphans \/ crossed)
    BY <2>1, BeginKeeps, WorkKeeps
  <2>2. ASSUME Apart, UNCHANGED vars PROVE Apart'
    BY <2>2 DEF vars, Apart, Starting
  <2> QED
    BY <2>1, <2>2 DEF Next
<1> QED
  BY <1>1, <1>2, ServiceInvariance, PTL DEF Spec, OrphansOnlyBehindOverlap

(* A change that ran alone is in effect, or the service is not connected,  *)
(* or the configuration is incomplete: the restart of SaveConfig and the   *)
(* switch of ToggleAccount leave nothing behind.                           *)
THEOREM LoneChangeTakesEffect == Spec => LoneChangeApplies
<1> DEFINE Applied == state' = "CONNECTED" => running'[server'] = file' \/ ~file'.complete
           Change(c) == Returns(c, {"save", "on", "off"}) /\ ~At(c, "write")
<1>1. ASSUME ServiceInv, [Next]_vars, NEW c \in Callers, Change(c)
      PROVE  Applied
  <2>1. /\ ~At(c, "idle") /\ call'[c].pc = "idle" /\ call[c].op \in Changing /\ call[c].alone
        /\ Work(c) /\ Lone(c) /\ Types /\ ~At(c, "write")
    BY <1>1, LoneReturn DEF Returns, ServiceInv, LoneInv, Changing
  <2>2. CASE Look(c)
    <3>1. call[c].config = file /\ UNCHANGED <<file, state>>
      BY <2>1, <2>2 DEF Lone, Look
    <3>2. ASSUME Forget(c, "take", None) PROVE FALSE
      <4>1. Moved(c, "take", None, Idle.config)
        BY <2>1, <3>2, Forgetting DEF Places
      <4> QED
        BY <2>1, <4>1 DEF Moved
    <3> QED
      BY <2>2, <3>1, <3>2 DEF Look
  <2>3. CASE Check(c)
    BY <2>1, <2>3 DEF Check, Lone, At
  <2>4. CASE SetError(c)
    BY <2>4 DEF SetError
  <2>5. CASE Publish(c)
    <3>1. running[Held(c)] = file
      BY <2>1, <2>5 DEF Publish, Lone
    <3> QED
      BY <2>5, <3>1 DEF Publish, Held
  <2>6. CASE Switch(c)
    <3>1. /\ UNCHANGED <<file, state, server>> /\ At(c, "switch")
      BY <2>6 DEF Switch
    <3>2. SUFFICES ASSUME state = "CONNECTED", file.complete PROVE running'[server] = file
      BY <3>1
    <3>3. running[server] = file /\ server \in Listening
      BY <1>1, <2>1, <3>1, <3>2 DEF Lone, ServiceInv, ConnectedIsListening
    <3>4. running'[server] = [file EXCEPT !.on = (call[c].op = "on")]
      BY <1>1, <2>6, <3>3, SwitchStep
    <3>5. file.on = (call[c].op = "on") /\ file \in Configs
      BY <2>1, <3>1 DEF Lone, Wanted, At, Types
    <3> QED
      BY <3>4, <3>5 DEF Configs
  <2>7. CASE Write(c) \/ Take(c) \/ Close(c)
    BY <2>1, <2>7 DEF Write, Take, Close, Forget, Types, CallType, At, Changing
  <2>8. CASE Load(c) \/ Listen(c)
    <3>1. /\ call[c].pc # "idle" /\ call[c] \in CallType /\ call \in [Callers -> CallType]
      BY <2>1 DEF At, Types
    <3>2. ASSUME NEW p \in {"listen", "publish", "error"},
                 \/ Goto(c, p)
                 \/ \E h : Forget(c, p, h)
                 \/ \E cfg : call' = [call EXCEPT ![c].pc = p, ![c].config = cfg]
          PROVE  call'[c].pc = p
      BY <3>1, <3>2 DEF Goto, Forget, CallType
    <3>3. ASSUME Load(c) PROVE call'[c].pc \in {"listen", "error"}
      BY <3>2, <3>3 DEF Load
    <3>4. ASSUME Listen(c) PROVE call'[c].pc \in {"publish", "error"}
      BY <3>2, <3>4 DEF Listen
    <3>5. call'[c].pc \in {"listen", "publish", "error"}
      BY <2>8, <3>3, <3>4
    <3> QED
      BY <2>1, <3>5
  <2> QED
    BY <2>1, <2>2, <2>3, <2>4, <2>5, <2>6, <2>7, <2>8 DEF Work
<1>2. ServiceInv /\ [Next]_vars => [\A c \in Callers : Change(c) => Applied]_vars
  BY <1>1
<1> QED
  BY <1>2, ServiceInvariance, PTL DEF Spec, LoneChangeApplies
=============================================================================
