---------------------------- MODULE UserInterface ----------------------------
(***************************************************************************)
(* The button and the two LEDs of a module (LEDUserInterface.cpp) with     *)
(* their timing (Switch.cpp, LED.cpp), over a clock that wraps, together   *)
(* with what reaches them through the action queue from the Minimum Node   *)
(* Service and the CAN service.                                            *)
(*                                                                         *)
(* VlcbNode has the modes with all their messages and treats the LEDs as   *)
(* what they show when all pulses have passed; here a mode change is any   *)
(* that its handlers make, an answer is told by its actions alone, and a   *)
(* LED is what it shows at each moment.                                    *)
(***************************************************************************)
EXTENDS Integers, Sequences, FiniteSetsExt

CONSTANTS
  UNINITIALISED, SETUP, NORMAL,   \* VlcbModeParams
  ClockRange,    \* values of millis(): 2^32 in the code
  SwTrHold,      \* SW_TR_HOLD: a press beyond this changes the mode
  MediumFrom, MediumTo,           \* a press in between renegotiates
  ShortBelow,    \* a press below this starts an enumeration
  BlinkRate,     \* BLINK_RATE
  PulseActivity, PulseWork,       \* PULSE_ACTIVITY, PULSE_WORK
  MaxPass,       \* bound: how long the loop takes to come round
  MaxPress,      \* bound: how long the button is held
  Backlog        \* bound: frames arrive, and the button is pressed, while the
                 \* queue is shorter than this

ASSUME UserInterfaceAssumption ==
  /\ UNINITIALISED # SETUP /\ UNINITIALISED # NORMAL /\ SETUP # NORMAL
  /\ ClockRange \in Nat \ {0} /\ MaxPass \in Nat /\ MaxPress \in Nat
  /\ MaxPress + MaxPass < ClockRange
  /\ PulseActivity + MaxPass < ClockRange /\ PulseWork + MaxPass < ClockRange
  /\ {ShortBelow, MediumFrom, MediumTo, SwTrHold} \subseteq Nat
  /\ ShortBelow <= MediumFrom /\ MediumFrom < MediumTo /\ MediumTo <= SwTrHold
  /\ BlinkRate \in Nat \ {0} /\ PulseActivity \in Nat \ {0} /\ PulseWork \in Nat \ {0}
  /\ Backlog \in Nat

VARIABLES
  pc,            \* where the pass of the loop is: "dispatch" or "process"
  queue,         \* actionQueue
  instantMode,   \* of the Minimum Node Service
  currentMode,   \* of Configuration: never SETUP
  clock,         \* millis()
  down,          \* whether the button is down
  wasPressed,    \* pushButton: whether it was down at the last run()
  pressTime,     \* pushButton._lastStateChangeTime while it is pressed
  leds,          \* the LEDs "yellow" and "green"
  sincePass,     \* time since the last pass of the loop
  pressed,       \* history: how long the button is, or was last, down
  asked,         \* history: what the last pass made of a release, and of
                 \* how long a press
  due,           \* history: how long each LED must still be on for its pulses
  wrapped        \* history: LEDs whose pulse was asked for around a wrap

modes   == <<instantMode, currentMode>>
button  == <<down, wasPressed, pressTime>>
display == <<leds, due, wrapped>>
env     == <<clock, sincePass, pressed>>
vars    == <<pc, queue, modes, button, display, env, asked>>

Modes  == {UNINITIALISED, SETUP, NORMAL}
Colour == {"yellow", "green"}
Time   == 0 .. ClockRange - 1

-----------------------------------------------------------------------------
(* Actions on the queue, as far as they concern the user interface.        *)
Act(type)      == [type |-> type]
Indicate(mode) == [type |-> "INDICATE_MODE", mode |-> mode]

ChangeMode  == Act("CHANGE_MODE")
Renegotiate == Act("RENEGOTIATE")
Enumerate   == Act("START_CAN_ENUMERATION")
Activity    == Act("INDICATE_ACTIVITY")
Work        == Act("INDICATE_WORK")
MessageIn   == Act("MESSAGE_IN")
MessageOut  == Act("MESSAGE_OUT")

Quiet  == {ChangeMode, Renegotiate, Enumerate, Activity, Work, MessageIn, MessageOut}
Action == Quiet \cup {Indicate(m) : m \in Modes}

-----------------------------------------------------------------------------
(* LED.cpp.  Interval and start are kept at 0 while the LED's mode does    *)
(* not read them.                                                          *)
ElapsedSigned(since) == clock - since       \* mutant: not unsigned arithmetic

Elapsed(since) == (clock - since) % ClockRange

Steady(mode)         == [mode |-> mode, interval |-> 0, start |-> 0]
Timed(mode, i)       == [mode |-> mode, interval |-> i, start |-> clock]
On       == Steady("On")
Off      == Steady("Off")
Blinking == Timed("Blinking_On", BlinkRate)

isLit(led) == led.mode \in {"On", "Blinking_On", "Pulsing"}

PulseShortened(led, d) == Timed("Pulsing", d)      \* mutant: the newest counts

(* Sums of times wrap before they are compared.                            *)
Pulse(led, d) ==
  IF led.mode = "Pulsing"
     /\ (led.start + led.interval) % ClockRange > (clock + d) % ClockRange
  THEN led ELSE Timed("Pulsing", d)

RunLed(led) ==
  CASE led.mode \in {"Blinking_On", "Blinking_Off"} /\ Elapsed(led.start) >= led.interval ->
         Timed(IF led.mode = "Blinking_On" THEN "Blinking_Off" ELSE "Blinking_On", BlinkRate)
    [] led.mode = "Pulsing" /\ Elapsed(led.start) >= led.interval -> Off
    [] OTHER -> led

-----------------------------------------------------------------------------
(* LEDUserInterface::indicateMode, on LEDs that show lit.                  *)
ModeLeds(mode) ==
  CASE mode = NORMAL        -> [yellow |-> On, green |-> Off]
    [] mode = UNINITIALISED -> [yellow |-> Off, green |-> On]
    [] mode = SETUP         -> [yellow |-> Blinking, green |-> Off]

NoPromise == [c \in Colour |-> 0]

Show(mode) ==
  leds' = ModeLeds(mode) /\ due' = NoPromise /\ wrapped' = {}

PulsedAlwaysYellow == "yellow"                        \* mutant

Pulsed == IF currentMode' = UNINITIALISED THEN "yellow" ELSE "green"

SumsWrap(led, d) ==
  \/ clock + d >= ClockRange
  \/ led.mode = "Pulsing" /\ (led.start > clock \/ led.start + led.interval >= ClockRange)

PulseFor(d) ==
  LET c == Pulsed
  IN  /\ leds' = [leds EXCEPT ![c] = Pulse(@, d)]
      /\ due' = [due EXCEPT ![c] = Max({@, d})]
      /\ wrapped' = IF SumsWrap(leds[c], d) THEN wrapped \cup {c} ELSE wrapped

-----------------------------------------------------------------------------
(* First half of a pass: an action is taken off the queue and shown to     *)
(* every service.                                                          *)
Dispatching(action) == queue # <<>> /\ Head(queue) = action
Answer(actions)     == queue' = Tail(queue) \o actions
SameModes           == UNCHANGED modes
ToMode(i, c)        == instantMode' = i /\ currentMode' = c

(* initSetupCommon() and setUninitialised() of the Minimum Node Service;   *)
(* the second one releases the number of a Normal node that has one.       *)
InitSetup(before, after) ==
  /\ ToMode(SETUP, currentMode)
  /\ Answer(before \o <<Indicate(SETUP), MessageOut>> \o after)

SetUninitialised(before, after) ==
  /\ ToMode(UNINITIALISED, UNINITIALISED)
  /\ \E release \in {<<>>} \cup (IF instantMode = NORMAL THEN {<<MessageOut>>} ELSE {}) :
        Answer(before \o release \o <<Indicate(UNINITIALISED)>> \o after)

LeaveSetup(after) ==
  ToMode(currentMode, currentMode) /\ Answer(<<Indicate(currentMode)>> \o after)

MnsChangeMode ==
  /\ Dispatching(ChangeMode)
  /\ \/ instantMode = UNINITIALISED /\ InitSetup(<<Enumerate>>, <<>>)
     \/ instantMode # UNINITIALISED /\ SetUninitialised(<<>>, <<>>)

MnsRenegotiate ==
  /\ Dispatching(Renegotiate)
  /\ \/ instantMode = UNINITIALISED /\ SameModes /\ Answer(<<>>)
     \/ instantMode = SETUP /\ \E nnack \in {<<>>, <<MessageOut>>} : LeaveSetup(nnack)
     \/ instantMode = NORMAL /\ InitSetup(<<>>, <<>>)

(* What a message that changes no mode may be answered with by all the     *)
(* services together: up to two messages, and Work before or after them.   *)
PlainAnswers ==
  LET Messages == {<<>>, <<MessageOut>>, <<MessageOut, MessageOut>>}
  IN  Messages \cup {m \o <<Work>> : m \in Messages} \cup {<<Work>> \o m : m \in Messages}

(* SNN and RQNN in Setup, OPC_MODE, and any message that changes no mode.  *)
MnsMessage ==
  /\ Dispatching(MessageIn)
  /\ \/ /\ instantMode = SETUP
        /\ ToMode(NORMAL, NORMAL) /\ Answer(<<Indicate(NORMAL), MessageOut, Work>>)
     \/ instantMode = SETUP /\ LeaveSetup(<<Work>>)
     \/ instantMode # UNINITIALISED /\ SetUninitialised(<<MessageOut>>, <<Work>>)
     \/ instantMode = NORMAL /\ InitSetup(<<MessageOut>>, <<Work>>)
     \/ SameModes /\ \E answer \in PlainAnswers : Answer(answer)

(* LEDUserInterface::processAction, after the Minimum Node Service.        *)
UiIndicateMode ==
  /\ queue # <<>> /\ Head(queue).type = "INDICATE_MODE"
  /\ Answer(<<>>) /\ SameModes
  /\ Show(Head(queue).mode)

UiPulse ==
  /\ \/ Dispatching(Activity) /\ Answer(<<>>) /\ SameModes /\ PulseFor(PulseActivity)
     \/ Dispatching(Work) /\ Answer(<<>>) /\ SameModes /\ PulseFor(PulseWork)

(* CanService::sendMessage, and an enumeration, which shows no activity.   *)
CanSend ==
  /\ \/ Dispatching(MessageOut) /\ Answer(<<Activity>>)
     \/ Dispatching(Enumerate) /\ Answer(<<>>)
  /\ SameModes

Idle == queue = <<>> /\ UNCHANGED queue /\ SameModes

Dispatch ==
  /\ pc = "dispatch" /\ pc' = "process"
  /\ \/ /\ MnsChangeMode \/ MnsRenegotiate \/ MnsMessage \/ CanSend \/ Idle
        /\ UNCHANGED display
     \/ UiIndicateMode
     \/ UiPulse
  /\ asked' = [request |-> "none", pressed |-> 0]
  /\ UNCHANGED <<button, env>>

-----------------------------------------------------------------------------
(* Second half: the process() of the services.                             *)

(* checkRequestedAction() on a press of length t.                          *)
Request(t) ==
  CASE t > SwTrHold                      -> "CHANGE_MODE"
    [] t >= MediumFrom /\ t < MediumTo   -> "RENEGOTIATE"
    [] t < ShortBelow                    -> "START_CAN_ENUMERATION"
    [] OTHER                             -> "none"

(* Switch::run().  While the button is up nothing reads the time of the    *)
(* last change.                                                            *)
Sample ==
  /\ wasPressed' = down
  /\ pressTime' = IF ~down THEN 0 ELSE IF wasPressed THEN pressTime ELSE clock
  /\ UNCHANGED down

Released  == wasPressed /\ ~down
PressTime == Elapsed(pressTime)

resetRequested == wasPressed /\ down /\ Elapsed(pressTime) > SwTrHold

(* The LEDs run; then a long press shows Setup, in every pass anew.        *)
RunLeds ==
  \/ resetRequested /\ Show(SETUP)
  \/ /\ ~resetRequested
     /\ leds' = [c \in Colour |-> RunLed(leds[c])]
     /\ UNCHANGED <<due, wrapped>>

(* The request goes on the queue, and after it what the CAN service finds: *)
(* a message, or a frame that answers its enumeration; or a service sends  *)
(* a message of its own, a step of a long answer among them.               *)
Process ==
  /\ pc = "process" /\ pc' = "dispatch"
  /\ Sample
  /\ RunLeds
  /\ LET request == IF Released THEN Request(PressTime) ELSE "none"
         put     == IF request = "none" THEN <<>> ELSE <<Act(request)>>
     IN  /\ asked' = [request |-> request, pressed |-> IF Released THEN pressed ELSE 0]
         /\ \/ queue' = queue \o put
            \/ /\ Len(queue) < Backlog
               /\ \E found \in {<<Activity, MessageIn>>, <<Activity>>, <<MessageOut>>} :
                     queue' = queue \o put \o found
  /\ sincePass' = 0 /\ pressed' = IF Released THEN 0 ELSE pressed
  /\ UNCHANGED <<modes, clock>>

-----------------------------------------------------------------------------
(* The world: the clock, and a hand on the button.  A press or a release   *)
(* lasts until a pass has seen it: contacts that bounce for less are not   *)
(* seen, and those that bounce for longer count as presses.                *)
Tick ==
  /\ pc = "dispatch" /\ sincePass < MaxPass
  /\ clock' = (clock + 1) % ClockRange
  /\ sincePass' = sincePass + 1
  /\ pressed' = IF down THEN pressed + 1 ELSE pressed
  /\ down => pressed < MaxPress
  /\ due' = [c \in Colour |-> Max({0, due[c] - 1})]
  /\ wrapped' = {c \in wrapped : due[c] > 1}
  /\ UNCHANGED <<pc, queue, modes, button, leds, asked>>

Hand ==
  /\ pc = "dispatch" /\ down = wasPressed
  /\ down \/ Len(queue) < Backlog
  /\ down' = ~down
  /\ pressed' = IF down THEN pressed ELSE 0
  /\ UNCHANGED <<pc, queue, modes, wasPressed, pressTime, display, clock, sincePass, asked>>

(* Restarting Minimum Node Service indicates its mode; LEDs are off.       *)
Init ==
  /\ pc = "dispatch"
  /\ currentMode \in {UNINITIALISED, NORMAL} /\ instantMode = currentMode
  /\ queue = <<Indicate(currentMode)>>
  /\ clock = 0 /\ sincePass = 0
  /\ down = FALSE /\ wasPressed = FALSE /\ pressTime = 0 /\ pressed = 0
  /\ leds = [c \in Colour |-> Off] /\ due = NoPromise /\ wrapped = {}
  /\ asked = [request |-> "none", pressed |-> 0]

Next == Dispatch \/ Process \/ Tick \/ Hand

Spec == Init /\ [][Next]_vars

-----------------------------------------------------------------------------
Led == [mode : {"Off", "On", "Blinking_Off", "Blinking_On", "Pulsing"},
        interval : {0, BlinkRate, PulseActivity, PulseWork}, start : Time]

(* Every variable has its type.                                            *)
TypeOK ==
  /\ pc \in {"dispatch", "process"}
  /\ queue \in Seq(Action)
  /\ instantMode \in Modes /\ currentMode \in {UNINITIALISED, NORMAL}
  /\ clock \in Time /\ sincePass \in 0 .. MaxPass
  /\ down \in BOOLEAN /\ wasPressed \in BOOLEAN /\ pressTime \in Time
  /\ pressed \in 0 .. MaxPress
  /\ leds \in [Colour -> Led]
  /\ due \in [Colour -> Nat] /\ wrapped \subseteq Colour

Queued(type) == \E k \in DOMAIN queue : queue[k].type = type

(* No change of mode is on its way to the LEDs, and the button is not held *)
(* for one.                                                                *)
Settled ==
  ~Queued("INDICATE_MODE") /\ ~Queued("CHANGE_MODE")
    /\ ~(wasPressed /\ Elapsed(pressTime) > SwTrHold)

IdleOrPulsing(led) == led.mode \in {"Off", "Pulsing"}

Shown ==
  CASE instantMode = NORMAL -> leds.yellow.mode = "On" /\ IdleOrPulsing(leds.green)
    [] instantMode = UNINITIALISED -> leds.green.mode = "On" /\ IdleOrPulsing(leds.yellow)
    [] instantMode = SETUP ->
         leds.yellow.mode \in {"Blinking_On", "Blinking_Off"} /\ IdleOrPulsing(leds.green)

(* The LED of the mode stays lit in Normal and Uninitialised mode, and     *)
(* blinks in a Setup entered from Normal, whatever pulses were asked for,  *)
(* in whichever order they and the changes of mode came off the queue      *)
(* (LEDUserInterface.cpp:46).                                              *)
ModeIsShown ==
  Settled /\ (instantMode = SETUP => currentMode = NORMAL) => Shown

(* "the Yellow LED flashes" (VLCB4in4out_README.md:169): in every Setup.   *)
SetupFlashes == Settled /\ instantMode = SETUP => Shown

(* "Set the interval to the max of remainder of current pulse and new      *)
(* pulse." (LED.cpp:70): a LED is lit for as long as each pulse asks.      *)
PulsesLast == \A c \in Colour : due[c] > 0 => isLit(leds[c])

(* The same for pulses that are not asked for around a wrap of the clock.  *)
PulsesLastUnwrapped ==
  \A c \in Colour \ wrapped : due[c] > 0 => isLit(leds[c])

(* What a release asks for is what a press of that length, give or take a  *)
(* pass of the loop, is to ask for, also when the clock wraps in the press *)
(* (LEDUserInterface.cpp:113, Switch.cpp).                                 *)
PressIsUnderstood ==
  asked.request # "none" =>
    \E t \in asked.pressed - MaxPass .. asked.pressed + MaxPass :
      t >= 0 /\ asked.request = Request(t)
=============================================================================
