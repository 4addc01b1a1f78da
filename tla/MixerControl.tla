---------------------------- MODULE MixerControl ----------------------------
(***************************************************************************)
(* The mixer: a PaulaMixer window on the Amiga asks for settings in        *)
(* PM_REQUEST, one whole word; CPU1 adopts them between two frames and     *)
(* acknowledges in PM_APPLIED.  Several windows, and other programs, may   *)
(* write the request; AmigaOS switches tasks between any two accesses, and *)
(* CPU1 runs beside them.  The settings word is a record; the register     *)
(* window accepts nothing but valid words.                                 *)
(*                                                                         *)
(* The model starts when CPU1 has initialised the bank and the renderer    *)
(* and HDMI is being set up.  Gadget drawing, layout and the volume meters *)
(* are left out.                                                           *)
(***************************************************************************)
EXTENDS Naturals, FiniteSets

CONSTANTS
  Guis,          \* the PaulaMixer windows
  Limit,         \* the highest level of a slider: 100
  PokedLevels,   \* master levels other programs try to write, valid or not
  Clicks,        \* the gadgets the user clicks: "interp", "mute", "defaults"
  MaxEvents      \* bound: presses, moves, clicks, windows and pokes

MixerAssumption ==
  /\ Limit \in Nat /\ PokedLevels \subseteq Nat /\ MaxEvents \in Nat
  /\ Clicks \subseteq {"interp", "mute", "defaults"}

VARIABLES
  request, applied,  \* the words PM_REQUEST and PM_APPLIED
  hdmi,              \* the flags of CPU1: "starting", "playing" or "failed"
  core,              \* the settings in the Paula core
  applier,           \* paula_live_mixer_apply: where it is, the word it read
  gui,               \* the state of every window
  held,              \* the slider the user holds down in every window
  input_count,            \* how many inputs there have been
  asked              \* history: every word the bank has held

mixerVars == <<request, applied, hdmi, core, applier, gui, held, input_count, asked>>
bankVars == <<request, asked>>
cpu1Vars == <<applied, hdmi, core, applier>>
userVars == <<held, input_count>>

Sliders == {"master", "stereo"}
Levels == 0 .. Limit
Word == [master : Levels, stereo : Levels, interp : BOOLEAN, mute : BOOLEAN]
Default == [master |-> Limit, stereo |-> Limit, interp |-> FALSE, mute |-> FALSE]
NoWord == [master |-> Limit + 1]   \* the zero the bank and last_mixer begin with

Valid(w) == w.master \in Levels

\* The statics of a window before and after it finds the backend.
Opened == [pc |-> "flags", ctl |-> Default, backend |-> FALSE, slider |-> "none",
           requested |-> NoWord, applied |-> NoWord, word |-> NoWord]
Closed == [Opened EXCEPT !.pc = "closed"]
Dropped(s) == [s EXCEPT !.backend = FALSE, !.slider = "none"]

MixerInit ==
  /\ request = Default /\ applied = NoWord /\ asked = {Default}
  /\ hdmi = "starting" /\ core = Default
  /\ applier = [pc |-> "off", word |-> NoWord]
  /\ gui = [g \in Guis |-> Closed] /\ held = [g \in Guis |-> "none"]
  /\ input_count = 0

-----------------------------------------------------------------------------
(* The bank: writes from the Amiga. *)

Accepts(w) ==
  /\ request' = IF Valid(w) THEN w ELSE request
  /\ asked' = asked \union {request'}

Input == input_count < MaxEvents /\ input_count' = input_count + 1

\* Another program writes to the register window.
Poke ==
  /\ Input
  /\ \E l \in PokedLevels : Accepts([Default EXCEPT !.master = l])
  /\ UNCHANGED <<cpu1Vars, gui, held>>

-----------------------------------------------------------------------------
(* CPU1. *)

HdmiInit ==
  /\ hdmi = "starting"
  /\ \/ hdmi' = "playing" /\ applier' = [applier EXCEPT !.pc = "top"]
     \/ hdmi' = "failed" /\ UNCHANGED applier
  /\ UNCHANGED <<bankVars, applied, core, gui, userVars>>

\* The FIFO stalls while a sample is written, never inside an adoption.
FifoStalls ==
  /\ applier.pc = "top" /\ hdmi = "playing"
  /\ hdmi' = "failed" /\ applier' = [applier EXCEPT !.pc = "off"]
  /\ UNCHANGED <<bankVars, applied, core, gui, userVars>>

\* Fault: the request is acknowledged as soon as it is read.
AckedEarly == request
AckedBefore == applied

Sample ==
  /\ applier.pc = "top"
  /\ request # applier.word /\ Valid(request)
  /\ applier' = [pc |-> "master", word |-> request]
  /\ applied' = AckedBefore
  /\ UNCHANGED <<bankVars, hdmi, core, gui, userVars>>

NextSetting == [master |-> "stereo", stereo |-> "interp", interp |-> "mute", mute |-> "ack"]

\* Fault: every setting is read from the bank again.
SourceNow == request
Source == applier.word

Adopt ==
  /\ applier.pc \in DOMAIN NextSetting
  /\ core' = [core EXCEPT ![applier.pc] = Source[applier.pc]]
  /\ applier' = [applier EXCEPT !.pc = NextSetting[applier.pc]]
  /\ UNCHANGED <<bankVars, applied, hdmi, gui, userVars>>

Acknowledge ==
  /\ applier.pc = "ack"
  /\ applied' = applier.word
  /\ applier' = [applier EXCEPT !.pc = "top"]
  /\ UNCHANGED <<bankVars, hdmi, core, gui, userVars>>

CPU1 == HdmiInit \/ Sample \/ Adopt \/ Acknowledge

-----------------------------------------------------------------------------
(* update_values: flags, PM_REQUEST (twice when the backend appears), then *)
(* PM_APPLIED.                                                             *)

Becomes(g, s) == gui' = [gui EXCEPT ![g] = s]

Available == hdmi = "playing"

ReadHdmi(g) ==
  /\ gui[g].pc = "flags"
  /\ LET s == gui[g] IN
     \/ Available /\ ~s.backend /\ Becomes(g, [s EXCEPT !.pc = "adopt"])
     \/ Available /\ s.backend /\ Becomes(g, [s EXCEPT !.pc = "poll"])
     \/ ~Available /\ Becomes(g, [Dropped(s) EXCEPT !.pc = "idle"])
  /\ UNCHANGED <<bankVars, cpu1Vars, userVars>>

\* Fault: the window keeps the settings it was started with.
KeepOwn(s, w) == [s EXCEPT !.requested = w]
Load(s, w) == [s EXCEPT !.ctl = w, !.requested = w]

FindBackend(g) ==
  /\ gui[g].pc = "adopt"
  /\ Becomes(g, IF Valid(request)
                THEN [Load(gui[g], request) EXCEPT !.backend = TRUE, !.pc = "poll"]
                ELSE [gui[g] EXCEPT !.pc = "idle"])
  /\ UNCHANGED <<bankVars, cpu1Vars, userVars>>

ReadRequest(g) ==
  /\ gui[g].pc = "poll"
  /\ Becomes(g, [gui[g] EXCEPT !.word = request, !.pc = "ack"])
  /\ UNCHANGED <<bankVars, cpu1Vars, userVars>>

\* Fault: a slider counts as held for ever.
NeverFollows(s) == FALSE
Follows(s) == s.word # s.requested /\ s.slider = "none"

ReadApplied(g) ==
  /\ gui[g].pc = "ack"
  /\ LET s == [gui[g] EXCEPT !.applied = applied, !.pc = "idle", !.word = NoWord] IN
     Becomes(g, IF ~Valid(gui[g].word) THEN [s EXCEPT !.backend = FALSE]
                ELSE IF Follows(gui[g]) THEN Load(s, gui[g].word) ELSE s)
  /\ UNCHANGED <<bankVars, cpu1Vars, userVars>>

\* The timer of 200 ms, or a refresh of the window.
Tick(g) ==
  /\ gui[g].pc = "idle"
  /\ Becomes(g, [gui[g] EXCEPT !.pc = "flags"])
  /\ UNCHANGED <<bankVars, cpu1Vars, userVars>>

-----------------------------------------------------------------------------
(* send_settings *)

WriteRequest(g) ==
  /\ gui[g].pc = "write"
  /\ Accepts(gui[g].ctl)
  /\ Becomes(g, [gui[g] EXCEPT !.pc = "readback"])
  /\ UNCHANGED <<cpu1Vars, userVars>>

ReadBack(g) ==
  /\ gui[g].pc = "readback"
  /\ LET s == [gui[g] EXCEPT !.requested = request, !.pc = "flags"] IN
     Becomes(g, IF request = s.ctl THEN s ELSE Dropped(s))
  /\ UNCHANGED <<bankVars, cpu1Vars, userVars>>

-----------------------------------------------------------------------------
(* The user.  An event that finds the backend gone only updates. *)

Changed(s, c) ==
  IF s.backend THEN [s EXCEPT !.ctl = c, !.pc = "write"] ELSE [s EXCEPT !.pc = "flags"]

Press(g) ==
  /\ gui[g].pc = "idle" /\ held[g] = "none" /\ Input
  /\ \E k \in Sliders, l \in Levels :
       LET s == Changed(gui[g], [gui[g].ctl EXCEPT ![k] = l]) IN
       /\ held' = [held EXCEPT ![g] = k]
       /\ Becomes(g, [s EXCEPT !.slider = IF s.backend THEN k ELSE s.slider])
  /\ UNCHANGED <<bankVars, cpu1Vars>>

\* A mouse move counts for the slider the window remembers.
Move(g) ==
  /\ gui[g].pc = "idle" /\ gui[g].slider # "none" /\ Input
  /\ \E l \in Levels : Becomes(g, Changed(gui[g], [gui[g].ctl EXCEPT ![gui[g].slider] = l]))
  /\ UNCHANGED <<bankVars, cpu1Vars, held>>

Release(g) ==
  /\ gui[g].pc = "idle" /\ held[g] # "none"
  /\ held' = [held EXCEPT ![g] = "none"]
  /\ LET s == Changed(gui[g], gui[g].ctl) IN
     Becomes(g, [s EXCEPT !.slider = IF s.backend THEN "none" ELSE s.slider])
  /\ UNCHANGED <<bankVars, cpu1Vars, input_count>>

Clicked(c, k) ==
  CASE k = "interp" -> [c EXCEPT !.interp = ~@]
    [] k = "mute" -> [c EXCEPT !.mute = ~@]
    [] k = "defaults" -> Default

Click(g) ==
  /\ gui[g].pc = "idle" /\ held[g] = "none" /\ Input
  /\ \E k \in Clicks : Becomes(g, Changed(gui[g], Clicked(gui[g].ctl, k)))
  /\ UNCHANGED <<bankVars, cpu1Vars, held>>

Open(g) ==
  /\ gui[g].pc = "closed" /\ Input
  /\ Becomes(g, Opened)
  /\ UNCHANGED <<bankVars, cpu1Vars, held>>

Close(g) ==
  /\ gui[g].pc = "idle" /\ held[g] = "none"
  /\ Becomes(g, Closed)
  /\ UNCHANGED <<bankVars, cpu1Vars, userVars>>

User(g) == Press(g) \/ Move(g) \/ Click(g) \/ Open(g) \/ Close(g)
Update(g) == ReadHdmi(g) \/ FindBackend(g) \/ ReadRequest(g) \/ ReadApplied(g)
Send(g) == WriteRequest(g) \/ ReadBack(g)

MixerNext ==
  \/ Poke \/ CPU1 \/ FifoStalls
  \/ \E g \in Guis : User(g) \/ Release(g) \/ Tick(g) \/ Update(g) \/ Send(g)

MixerSpec == MixerInit /\ [][MixerNext]_mixerVars

\* CPU1's loop and the windows' tasks run, the timer comes back, and nobody
\* holds a slider down for ever.
MixerFairSpec ==
  /\ MixerSpec /\ WF_mixerVars(CPU1)
  /\ \A g \in Guis : /\ WF_mixerVars(Tick(g)) /\ WF_mixerVars(Update(g) \/ Send(g))
                     /\ SF_mixerVars(Release(g))

-----------------------------------------------------------------------------
(* Properties *)

Shown(g) == gui[g].backend /\ gui[g].pc = "idle"

\* The bank only ever holds valid words, so a window never loses the backend
\* over one, and a window without the backend remembers no slider (it would
\* take no settings from the bank any more).
MixerTypeOK ==
  /\ request \in Word /\ asked \subseteq Word /\ core \in Word
  /\ applied \in asked \union {NoWord}
  /\ applier \in [pc : DOMAIN NextSetting \union {"off", "top", "ack"},
                  word : asked \union {NoWord}]
  /\ hdmi \in {"starting", "playing", "failed"}
  /\ \A g \in DOMAIN gui : /\ gui[g].ctl \in Word
                           /\ gui[g].slider # "none" => gui[g].backend /\ held[g] = gui[g].slider

\* Between two adoptions the settings in force are the acknowledged ones, all
\* from one word that was asked for: the renderer never plays half a request.
AckedIsInForce ==
  applier.pc \in {"top", "off"} =>
    /\ core = IF applied = NoWord THEN Default ELSE applied
    /\ core \in asked

\* A window that reads its own request as acknowledged either finds these
\* settings in force, or CPU1 has read another word since and will acknowledge
\* that one: an acknowledgement never comes early.
NeverAckedEarly ==
  [][\A g \in DOMAIN gui :
       ReadApplied(g) /\ gui'[g].backend /\ gui'[g].applied = gui'[g].requested =>
         core = gui'[g].applied \/ (applier.pc # "top" /\ applier.word # gui'[g].applied)]_mixerVars

\* The two together: what is acknowledged is in force, and no window is told so
\* before it is.
AcksAreHonest == []AckedIsInForce /\ NeverAckedEarly

\* With one window and no other writer, a click or a drag never changes a
\* setting the user did not touch, not even after the window was started anew.
SoleWindowKeepsOthers ==
  \A g \in DOMAIN gui : DOMAIN gui = {g} =>
    /\ gui[g].backend /\ gui[g].pc # "write" => gui[g].ctl = request
    /\ gui[g].pc = "write" =>
         \/ gui[g].ctl = Default
         \/ Cardinality({f \in DOMAIN request : gui[g].ctl[f] # request[f]}) <= 1

\* When nobody touches the mixer any more, either the output has failed and
\* every window says so, or the requested settings are in force and every open
\* window shows them, without "Applying...".
Settled ==
  \/ hdmi = "failed" /\ \A g \in DOMAIN gui : ~gui[g].backend
  \/ /\ applied = request /\ core = request
     /\ \A g \in DOMAIN gui : gui[g].pc # "closed" =>
          /\ gui[g].backend /\ gui[g].ctl = request
          /\ gui[g].applied = request /\ gui[g].requested = request
WindowsSettle == <>[]Settled
=============================================================================
