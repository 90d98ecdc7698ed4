---------------------------- MODULE ControlClient ----------------------------
(***************************************************************************)
(* The control loop of gateway/client/client_tls.c: find the gateway by      *)
(* broadcast, connect, poll the two sensors and switch the actuators, one    *)
(* request at a time over one connection.  A request carries an id that the  *)
(* client never compares with the answer's: answers are matched by their     *)
(* order alone.                                                            *)
(*                                                                         *)
(* The gateway is its workers as the client sees them: a request is executed *)
(* some time later, in any order, answered, refused or forgotten.            *)
(***************************************************************************)
EXTENDS Integers, Sequences, SequencesExt

CONSTANTS Actuators,             \* the actuators, in the order they are served
          DISCOVERY_MAX_RETRIES,
          MaxLate,               \* bound: switching requests in the gateway that have timed out
          CalmLevel              \* what the sensors measure once nothing changes any more

ASSUME ControlClientAssumption ==
  /\ Actuators \in Seq({"ac", "fan", "led"})
  /\ {DISCOVERY_MAX_RETRIES, MaxLate} \subseteq Nat \ {0}
  /\ CalmLevel \in [{"temp", "humi", "lux"} -> {"low", "high"}]

Actuator == Range(Actuators)
SensorOf(a) == CASE a = "ac" -> "temp" [] a = "fan" -> "humi" [] a = "led" -> "lux"
Sensor == {SensorOf(a) : a \in Actuator}
Level == {"low", "mid", "high"}      \* at or beyond a threshold, or between the two

Round == <<"aht30", "bh1750">> \o Actuators
Following(w) == (Round \o <<"sleep">>)[1 + CHOOSE i \in 1 .. Len(Round) : Round[i] = w]

\* What the answer of a sensor holds.
Holds(w) == Sensor \intersect (CASE w = "aht30" -> {"temp", "humi"} [] w = "bh1750" -> {"lux"}
                                 [] OTHER -> {})

VARIABLES
  pc, awaiting,      \* main's place, a request's name included; whether it waits for the answer
  shutdown, attempt, connected,
  belief,            \* ac_state, fan_state, led_state
  meas,              \* temperature, humidity, lux
  open,              \* the gateway has not closed the connection
  pending,           \* requests inside the gateway
  answers,           \* answers on their way to the client
  device,            \* the actuators themselves
  calm,              \* from now on nothing fails and the sensors stay at CalmLevel
  doubt              \* history of the connection's switching requests: "late" if one timed
                     \* out, "bad" if one was answered with an error, got no answer (carried out,
                     \* or after one that was late), or was left by an earlier connection

client == <<shutdown, attempt>>
gateway == <<open, device, calm>>
vars == <<client, pc, awaiting, connected, belief, meas, pending, answers, doubt, gateway>>

Init ==
  /\ pc = "top" /\ awaiting = FALSE /\ shutdown = FALSE /\ attempt = 1 /\ connected = FALSE
  /\ belief = [a \in Actuator |-> -1] /\ meas = [s \in Sensor |-> "mid"]
  /\ open = FALSE /\ pending = <<>> /\ answers = <<>>
  /\ device = [a \in Actuator |-> 0]
  /\ calm = FALSE /\ doubt = "none"
-----------------------------------------------------------------------------
\* sigwait, then the flag and a broadcast under the lock.  A sleeping main
\* wakes up, at the latest when its time is over.
signal_thread ==
  /\ ~shutdown
  /\ shutdown' = TRUE
  /\ UNCHANGED <<attempt, pc, awaiting, connected, belief, meas, pending, answers, doubt, gateway>>

Goto(p) == pc' = p /\ UNCHANGED <<shutdown, awaiting, belief, meas, pending, answers, doubt, gateway>>

\* As if main tested the flag only before it connects.
TopConnected ==
  /\ pc = "top"
  /\ Goto(IF connected THEN Head(Round) ELSE IF shutdown THEN "ended"
          ELSE "discover")
  /\ UNCHANGED <<attempt, connected>>

\* while (!client_should_stop(...)); setup_boardcast may fail.
Top ==
  /\ pc = "top"
  /\ \/ Goto(IF shutdown THEN "ended" ELSE IF connected THEN Head(Round)
             ELSE "discover")
     \/ ~calm /\ ~shutdown /\ ~connected /\ Goto("sleep")
  /\ UNCHANGED <<attempt, connected>>

\* One attempt of do_discovery: the flag is tested, the broadcast sent, an answer with a
\* port awaited.
do_discovery ==
  /\ pc = "discover"
  /\ \/ shutdown /\ Goto("sleep") /\ attempt' = 1
     \/ ~shutdown /\ Goto("connect") /\ attempt' = 1
     \/ ~shutdown /\ ~calm /\ IF attempt = DISCOVERY_MAX_RETRIES
                            THEN Goto("sleep") /\ attempt' = 1
                            ELSE Goto("discover") /\ attempt' = attempt + 1
  /\ UNCHANGED connected

\* As if the states were kept over a new connection.
ConnectKeep ==
  /\ pc = "connect"
  /\ connected' = TRUE /\ open' = TRUE
  /\ pc' = Head(Round)
  /\ UNCHANGED <<client, awaiting, belief, meas, pending, answers, doubt, device, calm>>

\* connect_tls and the reset of the three states.
Connect ==
  /\ pc = "connect"
  /\ connected' = TRUE /\ open' = TRUE
  /\ belief' = [a \in Actuator |-> -1]
  /\ pc' = Head(Round)
  /\ UNCHANGED <<client, awaiting, meas, pending, answers, doubt, device, calm>>

ConnectFails == pc = "connect" /\ ~calm /\ Goto("sleep") /\ UNCHANGED <<attempt, connected>>

\* sleep_interruptible_cd
Sleep == pc = "sleep" /\ Goto("top") /\ UNCHANGED <<attempt, connected>>
-----------------------------------------------------------------------------
decide_state(v, current) ==
  CASE v = "high" -> 1 [] v = "low" -> 0 [] OTHER -> IF current = -1 THEN 0 ELSE current

decide_state_inverted(v, current) ==
  CASE v = "low" -> 1 [] v = "high" -> 0 [] OTHER -> IF current = -1 THEN 0 ELSE current

Decide(a, v, current) == IF a = "led" THEN decide_state_inverted(v, current) ELSE decide_state(v, current)
Want(a) == Decide(a, meas[SensorOf(a)], belief[a])

\* On to the next request; a measured value is not looked at again once its actuator is served.
Proceed(w) ==
  /\ pc' = Following(w)
  /\ meas' = [meas EXCEPT ![SensorOf(w)] = "mid"]

Forsaken(q) == [q EXCEPT !.mine = FALSE]
Orphan(q) == [q EXCEPT !.mine = FALSE, !.here = FALSE]
Switching(s) == SelectSeq(s, LAMBDA q : q.what \in Actuator)
MapSeq(Op(_), s) == [i \in DOMAIN s |-> Op(s[i])]

\* communication_error: the connection is closed.  Nobody will notice what becomes of a
\* request for a sensor.
communication_error ==
  /\ pc' = "sleep"
  /\ meas' = [s \in Sensor |-> "mid"]
  /\ connected' = FALSE /\ open' = FALSE
  /\ answers' = <<>> /\ doubt' = "none"
  /\ pending' = MapSeq(Orphan, Switching(pending))

\* As if a switching request without an answer counted as done.
FailedBelieved ==
  /\ awaiting' = FALSE
  /\ IF pc \in Actuator
     THEN /\ Proceed(pc)
          /\ belief' = [belief EXCEPT ![pc] = Want(pc)]
          /\ doubt' = IF doubt = "bad" THEN "bad" ELSE "late"
          /\ pending' = MapSeq(Forsaken, pending)
          /\ UNCHANGED <<connected, open, answers>>
     ELSE communication_error /\ UNCHANGED belief
  /\ UNCHANGED <<client, device, calm>>

\* The failure of do_request: fetch_temp_humi and fetch_lux return false,
\* apply_actuator_if_changed only says so.
Failed ==
  /\ awaiting' = FALSE
  /\ IF pc \in Actuator
     THEN /\ Proceed(pc)
          /\ doubt' = IF doubt = "bad" THEN "bad" ELSE "late"
          /\ pending' = MapSeq(Forsaken, pending)
          /\ UNCHANGED <<connected, open, answers>>
     ELSE communication_error
  /\ UNCHANGED <<client, belief, device, calm>>

\* do_request up to send_all; apply_actuator_if_changed asks only for a change.
Ask ==
  /\ pc \in Range(Round) /\ ~awaiting
  /\ ~(pc \in Actuator /\ Want(pc) = belief[pc])
  /\ open
  /\ awaiting' = TRUE
  /\ pending' = Append(pending, [what |-> pc, state |-> IF pc \in Actuator THEN Want(pc) ELSE 0,
                                 mine |-> TRUE, here |-> TRUE])
  /\ UNCHANGED <<client, pc, connected, belief, meas, answers, doubt, gateway>>

AskNobody == pc \in Range(Round) /\ ~awaiting /\ ~open /\ ~(pc \in Actuator /\ Want(pc) = belief[pc]) /\ Failed

NothingToDo ==
  /\ pc \in Actuator /\ ~awaiting
  /\ Want(pc) = belief[pc]
  /\ Proceed(pc)
  /\ UNCHANGED <<client, awaiting, connected, belief, pending, answers, doubt, gateway>>

\* As if a fetch looked at the status of the answer and not for its data.
FetchAny(r) ==
  IF r.ok
  THEN meas' = [s \in Sensor |-> IF s \in Holds(pc) THEN r.val[s] ELSE meas[s]] /\ pc' = Following(pc)
       /\ answers' = Tail(answers) /\ UNCHANGED <<connected, open, pending, doubt>>
  ELSE communication_error

\* fetch_temp_humi, fetch_lux: status "ok" and the numbers asked for.
Fetch(r) ==
  IF r.ok /\ r.what = pc
  THEN meas' = [s \in Sensor |-> IF s \in Holds(pc) THEN r.val[s] ELSE meas[s]] /\ pc' = Following(pc)
       /\ answers' = Tail(answers) /\ UNCHANGED <<connected, open, pending, doubt>>
  ELSE communication_error

\* The end of do_request: a frame of type MSG_RESPONSE or MSG_ERROR, whoever asked for it.
TakeSensor ==
  /\ awaiting /\ pc \notin Actuator /\ answers # <<>>
  /\ Fetch(Head(answers))
  /\ awaiting' = FALSE
  /\ UNCHANGED <<client, belief, device, calm>>

\* apply_actuator_if_changed: an error counts as done.
apply_actuator ==
  /\ awaiting /\ pc \in Actuator /\ answers # <<>>
  /\ belief' = [belief EXCEPT ![pc] = Want(pc)]
  /\ Proceed(pc)
  /\ answers' = Tail(answers)
  /\ doubt' = IF Head(answers).ok THEN doubt ELSE "bad"
  /\ pending' = MapSeq(Forsaken, pending)
  /\ awaiting' = FALSE
  /\ UNCHANGED <<client, connected, open, device, calm>>

\* RECV_TIMEOUT_SEC without an answer, or the gateway has closed the connection.
GiveUp ==
  /\ awaiting /\ answers = <<>>
  /\ calm /\ open => \A i \in DOMAIN pending : ~pending[i].mine
  /\ Len(Switching(pending)) <= MaxLate
  /\ Failed
-----------------------------------------------------------------------------
(* The gateway as the client sees it *)

Reaches(q) == q.here /\ open
Answer(q, ok, v) == [what |-> q.what, ok |-> ok, val |-> v, mine |-> q.mine]
NoValue == [s \in Sensor |-> "mid"]

\* process_hardware_task, MSG_GET_SENSOR: the values, an error, or no answer at all.
GetSensor(i) ==
  LET q == pending[i] IN
  /\ q.what \notin Actuator
  /\ pending' = RemoveAt(pending, i)
  /\ \/ Reaches(q) /\ ~calm /\ answers' = Append(answers, Answer(q, FALSE, NoValue))
     \/ /\ Reaches(q)
        /\ \E v \in [Sensor -> Level] :
             /\ \A s \in Sensor : v[s] # "mid" => s \in Holds(q.what)
             /\ calm => \A s \in Holds(q.what) : v[s] = CalmLevel[s]
             /\ answers' = Append(answers, Answer(q, TRUE, v))
     \/ ~(Reaches(q) /\ calm) /\ UNCHANGED answers
  /\ UNCHANGED <<client, pc, awaiting, connected, belief, meas, doubt, gateway>>

\* set_ac_actuator and set_fan_actuator write the state; set_led_actuator writes only the
\* brightness, which the client sets to LED_BRIGHTNESS_PERCENT also to switch it off.
Effect(a, state) == IF a = "led" THEN 1 ELSE state

\* process_hardware_task, MSG_SET_ACTUATOR: carried out (done) or not, answered with
\* success, with an error (also when it took too long) or not at all.
SetActuator(i) ==
  \E done \in BOOLEAN :
    LET q == pending[i] IN
    /\ q.what \in Actuator
    /\ calm => done
    /\ pending' = RemoveAt(pending, i)
    /\ device' = IF done THEN [device EXCEPT ![q.what] = Effect(q.what, q.state)] ELSE device
    /\ \/ /\ Reaches(q)
          /\ \E ok \in {done, calm} : answers' = Append(answers, Answer(q, ok, NoValue))
          /\ UNCHANGED doubt
       \/ /\ ~(Reaches(q) /\ calm)
          /\ doubt' = IF connected /\ (done \/ (q.here /\ doubt # "none")) THEN "bad" ELSE doubt
          /\ UNCHANGED answers
    /\ UNCHANGED <<client, pc, awaiting, connected, belief, meas, open, calm>>

GatewayCloses ==
  /\ open /\ ~calm /\ pc # "ended"
  /\ open' = FALSE
  /\ UNCHANGED <<client, pc, awaiting, connected, belief, meas, pending, answers, doubt, device, calm>>

\* A failure-free time may as well begin at the end of a round.
Calm ==
  /\ ~calm /\ pc = "sleep"
  /\ calm' = TRUE
  /\ UNCHANGED <<client, pc, awaiting, connected, belief, meas, pending, answers, doubt, open, device>>
-----------------------------------------------------------------------------
Main ==
  \/ Top \/ do_discovery \/ Connect \/ ConnectFails \/ Sleep
  \/ Ask \/ AskNobody \/ NothingToDo \/ TakeSensor \/ apply_actuator \/ GiveUp
Work == pc # "ended" /\ \E i \in DOMAIN pending : (calm => i = 1) /\ (GetSensor(i) \/ SetActuator(i))

Next == signal_thread \/ Main \/ Work \/ GatewayCloses \/ Calm

\* main goes on: every call it makes has a timeout.  The workers go on.
Spec == Init /\ [][Next]_vars /\ WF_vars(Main) /\ WF_vars(Work)
-----------------------------------------------------------------------------
(* Properties *)

\* Every measured value the client uses comes from the answer to its own request of this
\* round, although do_request takes any answer: a connection on which a late answer is
\* still due is found out by the next fetch, whose data are missing, and closed.
OwnMeasures == [][ \A s \in Sensor : meas'[s] # meas[s] /\ meas'[s] # "mid" => Head(answers).mine ]_vars

\* What the client believes of the air conditioner and the fan is their state, and a LED it
\* has ever switched is lit (switched off or not, see Effect), as long as on this connection
\* no switching request failed, none was answered with an error, and none of an earlier
\* connection was still carried out.
BeliefTrue ==
  connected /\ doubt = "none" =>
    \A a \in Actuator : belief[a] # -1 /\ ~(awaiting /\ pc = a) =>
      device[a] = IF a = "led" THEN 1 ELSE belief[a]

\* SIGINT or SIGTERM ends the program, wherever main is.
StopEnds == shutdown ~> (pc = "ended")

\* Once nothing fails any more, every actuator but the LED comes to the state its sensor calls
\* for and stays there, also after requests that timed out and were answered late: the late
\* answer gets the connection closed, and on a new one every actuator is switched again.  The
\* exceptions are an error taken for a success, an answer that never comes and a request of
\* an earlier connection carried out in this one.
Settled ==
  \/ shutdown \/ doubt = "bad"
  \/ \A a \in Actuator \ {"led"} : device[a] = Decide(a, CalmLevel[SensorOf(a)], 0)

Converges == <>calm => <>[]Settled

\* The client's message "LED: ON -> OFF" (apply_actuator_if_changed): a LED that is believed
\* off is off.  It stays at its brightness.
LedFollows ==
  connected /\ doubt = "none" /\ "led" \in Actuator /\ belief["led"] = 0 /\ ~(awaiting /\ pc = "led")
    => device["led"] = 0
=============================================================================
