-------------------------- MODULE MixerControlProofs --------------------------
(***************************************************************************)
(* Proofs about MixerControl, for any number of windows, levels and inputs *)
(* of the user and of other programs: its type, that an acknowledgement    *)
(* never comes early, and that a window alone changes only what the user   *)
(* touches.                                                                *)
(***************************************************************************)
EXTENDS MixerControl, FiniteSetTheorems, TLAPS

Fields == {"master", "stereo", "interp", "mute"}

Windows ==
  [pc : {"closed", "flags", "adopt", "poll", "ack", "idle", "write", "readback"},
   ctl : Word, backend : BOOLEAN, slider : Sliders \cup {"none"},
   requested : Word \cup {NoWord}, applied : Word \cup {NoWord}, word : Word \cup {NoWord}]

\* What is known of a window, with the slider that is held down in it: one that
\* has found the backend knows the word it asked for, and one that is about to
\* read PM_APPLIED has read a whole word from PM_REQUEST.
GoodWindow(s, slider) ==
  /\ s \in Windows
  /\ s.backend => s.requested \in Word
  /\ s.pc = "ack" => s.word \in Word
  /\ s.slider # "none" => s.backend /\ slider = s.slider

WindowsOK ==
  /\ gui \in [Guis -> Windows] /\ held \in [Guis -> Sliders \cup {"none"}]
  /\ \A g \in Guis : GoodWindow(gui[g], held[g])

BankOK ==
  /\ request \in Word /\ asked \subseteq Word
  /\ request \in asked /\ Default \in asked /\ input_count \in Nat

Cpu1OK ==
  /\ core \in Word /\ applied \in asked \cup {NoWord}
  /\ applier \in [pc : DOMAIN NextSetting \cup {"off", "top", "ack"}, word : asked \cup {NoWord}]
  /\ hdmi \in {"starting", "playing", "failed"} /\ (hdmi = "starting" => applier.pc = "off")

\* The settings CPU1 has adopted when it is at pc.
AdoptedAt(pc) ==
  CASE pc = "master" -> {}
    [] pc = "stereo" -> {"master"}
    [] pc = "interp" -> {"master", "stereo"}
    [] pc = "mute" -> {"master", "stereo", "interp"}
    [] pc = "ack" -> Fields

\* Between two adoptions the word last read is the acknowledged one, and in
\* force; while one is under way it is another word, and in force as far as it
\* has been adopted.
AdoptionOK ==
  IF applier.pc \in {"top", "off"}
  THEN applier.word = applied /\ core = IF applied = NoWord THEN Default ELSE applied
  ELSE /\ applier.word # applied /\ applier.word \in asked
       /\ \A f \in AdoptedAt(applier.pc) : core[f] = applier.word[f]

MixerInv == WindowsOK /\ BankOK /\ Cpu1OK /\ AdoptionOK

-----------------------------------------------------------------------------
(* Words.                                                                  *)

LEMMA Words ==
  ASSUME MixerAssumption
  PROVE  /\ Default \in Word /\ NoWord \notin Word
         /\ \A w \in Word : Valid(w) /\ DOMAIN w = Fields
         /\ \A l : \A w \in Word : Valid([w EXCEPT !.master = l]) <=> l \in Levels
<1>1. Limit \in Nat /\ Limit \in Levels
  BY DEF MixerAssumption, Levels
<1>2. Default \in Word
  BY <1>1 DEF Default, Word
<1>3. NoWord.master = Limit + 1 /\ Limit + 1 \notin Levels
  BY <1>1 DEF NoWord, Levels
<1>4. \A w \in Word : w.master \in Levels
  BY DEF Word
<1>5. NoWord \notin Word
  BY <1>3, <1>4
<1>6. \A w \in Word : Valid(w) /\ DOMAIN w = Fields
  BY DEF Word, Valid, Fields
<1>7. \A l : \A w \in Word : Valid([w EXCEPT !.master = l]) <=> l \in Levels
  BY DEF Word, Valid
<1> QED
  BY <1>2, <1>5, <1>6, <1>7

\* Two words that agree on all settings are the same word.
LEMMA SameWord ==
  ASSUME NEW v \in Word, NEW w \in Word, \A f \in Fields : v[f] = w[f]
  PROVE  v = w
<1>1. v.master = w.master /\ v.stereo = w.stereo /\ v.interp = w.interp /\ v.mute = w.mute
  BY DEF Fields
<1> QED
  BY <1>1 DEF Word

LEMMA SettingTypes ==
  ASSUME MixerAssumption, NEW w \in Word
  PROVE  /\ \A k \in Sliders, l \in Levels : [w EXCEPT ![k] = l] \in Word
         /\ \A v \in Word, f \in Fields : [w EXCEPT ![f] = v[f]] \in Word
         /\ \A k \in {"interp", "mute", "defaults"} : Clicked(w, k) \in Word
<1>1. ASSUME NEW k \in Sliders, NEW l \in Levels PROVE [w EXCEPT ![k] = l] \in Word
  BY DEF Word, Sliders
<1>2. ASSUME NEW v \in Word, NEW f \in Fields PROVE [w EXCEPT ![f] = v[f]] \in Word
  BY DEF Word, Fields
<1>3. ASSUME NEW k \in {"interp", "mute", "defaults"} PROVE Clicked(w, k) \in Word
  <2>1. [w EXCEPT !.interp = ~ @] \in Word
    BY DEF Word
  <2>2. [w EXCEPT !.mute = ~ @] \in Word
    BY DEF Word
  <2> QED
    BY <2>1, <2>2, Words DEF Clicked
<1> QED
  BY <1>1, <1>2, <1>3

-----------------------------------------------------------------------------
(* Where it starts.                                                        *)

LEMMA MixerStart ==
  ASSUME MixerAssumption, MixerInit
  PROVE  MixerInv
<1>1. BankOK
  BY Words DEF MixerInit, BankOK
<1>2. Cpu1OK
  BY Words DEF MixerInit, Cpu1OK
<1>3. AdoptionOK
  BY DEF MixerInit, AdoptionOK
<1>4. GoodWindow(Closed, "none")
  BY Words DEF Closed, Opened, GoodWindow, Windows
<1>5. WindowsOK
  BY <1>4 DEF MixerInit, WindowsOK, GoodWindow
<1> QED
  BY <1>1, <1>2, <1>3, <1>5 DEF MixerInv
-----------------------------------------------------------------------------
(* CPU1.                                                                   *)

LEMMA SampleStep ==
  ASSUME MixerAssumption, MixerInv, Sample
  PROVE  Cpu1OK' /\ AdoptionOK'
<1>1. /\ applier.pc = "top" /\ request # applier.word /\ request \in asked
      /\ applier' = [pc |-> "master", word |-> request]
      /\ UNCHANGED <<applied, core, hdmi, asked>>
  BY DEF Sample, AckedBefore, MixerInv, BankOK, bankVars
<1>2. Cpu1OK'
  BY <1>1 DEF MixerInv, Cpu1OK, NextSetting
<1>3. applier.word = applied
  BY <1>1 DEF MixerInv, AdoptionOK
<1>4. AdoptionOK'
  BY <1>1, <1>3 DEF AdoptionOK, AdoptedAt
<1> QED
  BY <1>2, <1>4

LEMMA AdoptStep ==
  ASSUME MixerAssumption, MixerInv, Adopt
  PROVE  Cpu1OK' /\ AdoptionOK'
<1> DEFINE f == applier.pc
           w == applier.word
<1>1. /\ f \in Fields
      /\ core' = [core EXCEPT ![f] = w[f]]
      /\ applier' = [applier EXCEPT !.pc = NextSetting[f]]
      /\ UNCHANGED <<applied, hdmi, asked>>
  BY DEF Adopt, Source, NextSetting, Fields, bankVars
<1>2. f \notin {"top", "off"}
  BY <1>1 DEF Fields
<1>3. w # applied /\ w \in asked /\ w \in Word /\ core \in Word
      /\ \A k \in AdoptedAt(f) : core[k] = w[k]
  BY <1>2 DEF MixerInv, AdoptionOK, BankOK, Cpu1OK
<1>4. core' \in Word
  <2> HIDE DEF w, f
  <2> QED
    BY <1>1, <1>3, SettingTypes
<1>5. \A k \in Fields : core'[k] = IF k = f THEN w[k] ELSE core[k]
  BY <1>1, <1>3, Words
<1>6. applier' = [pc |-> NextSetting[f], word |-> w]
  BY <1>1 DEF MixerInv, Cpu1OK
<1>7. NextSetting[f] \in {"stereo", "interp", "mute", "ack"}
      /\ AdoptedAt(NextSetting[f]) = AdoptedAt(f) \cup {f} /\ AdoptedAt(f) \subseteq Fields
  <2> HIDE DEF f
  <2>1. CASE f = "master"
    BY <2>1 DEF AdoptedAt, NextSetting, Fields
  <2>2. CASE f = "stereo"
    BY <2>2 DEF AdoptedAt, NextSetting, Fields
  <2>3. CASE f = "interp"
    BY <2>3 DEF AdoptedAt, NextSetting, Fields
  <2>4. CASE f = "mute"
    BY <2>4 DEF AdoptedAt, NextSetting, Fields
  <2> QED
    BY <1>1, <2>1, <2>2, <2>3, <2>4 DEF Fields
<1> HIDE DEF w, f
<1>8. applier'.pc = NextSetting[f] /\ applier'.word = w
  BY <1>6
<1>9. \A k \in AdoptedAt(applier'.pc) : core'[k] = w[k]
  BY <1>1, <1>3, <1>5, <1>7, <1>8
<1>10. AdoptionOK'
  BY <1>1, <1>3, <1>7, <1>8, <1>9 DEF AdoptionOK
<1>11. applier' \in [pc : DOMAIN NextSetting \cup {"off", "top", "ack"}, word : asked \cup {NoWord}]'
  <2> PICK n : n = NextSetting[f]
    OBVIOUS
  <2>1. n \in DOMAIN NextSetting \cup {"off", "top", "ack"}
    BY <1>7 DEF NextSetting
  <2>2. applier' = [pc |-> n, word |-> w] /\ asked' = asked
    BY <1>1, <1>6
  <2> QED
    BY <1>3, <2>1, <2>2
<1>12. Cpu1OK'
  <2>1. hdmi # "starting"
    BY <1>2 DEF MixerInv, Cpu1OK, f
  <2> QED
    BY <1>1, <1>3, <1>4, <1>11, <2>1 DEF MixerInv, Cpu1OK
<1> QED
  BY <1>10, <1>12

LEMMA AcknowledgeStep ==
  ASSUME MixerAssumption, MixerInv, Acknowledge
  PROVE  Cpu1OK' /\ AdoptionOK'
<1>1. /\ applier.pc = "ack" /\ applied' = applier.word
      /\ applier' = [applier EXCEPT !.pc = "top"]
      /\ UNCHANGED <<core, hdmi, asked>>
  BY DEF Acknowledge, bankVars
<1>2. applier.word \in asked /\ applier.word \in Word /\ core \in Word
      /\ \A f \in Fields : core[f] = applier.word[f]
  BY <1>1 DEF MixerInv, AdoptionOK, AdoptedAt, BankOK, Cpu1OK
<1>3. core = applier.word /\ applier.word # NoWord
  BY <1>2, SameWord, Words
<1>4. applier' = [pc |-> "top", word |-> applier.word]
  BY <1>1 DEF MixerInv, Cpu1OK
<1>5. AdoptionOK'
  BY <1>1, <1>3, <1>4 DEF AdoptionOK
<1>6. Cpu1OK'
  BY <1>1, <1>2, <1>4 DEF MixerInv, Cpu1OK, NextSetting
<1> QED
  BY <1>5, <1>6

\* The output comes up or fails, between two adoptions.
LEMMA OutputStep ==
  ASSUME MixerInv, HdmiInit \/ FifoStalls
  PROVE  Cpu1OK' /\ AdoptionOK'
<1>1. /\ applier.pc \in {"top", "off"}
      /\ \/ applier' = applier
         \/ \E pc \in {"top", "off"} : applier' = [applier EXCEPT !.pc = pc]
      /\ hdmi' \in {"playing", "failed"} /\ UNCHANGED <<applied, core, asked>>
  BY DEF HdmiInit, FifoStalls, bankVars, MixerInv, Cpu1OK
<1>2. applier'.word = applier.word /\ applier'.pc \in {"top", "off"}
      /\ applier' = [pc |-> applier'.pc, word |-> applier.word]
  BY <1>1 DEF MixerInv, Cpu1OK
<1>3. AdoptionOK'
  BY <1>1, <1>2 DEF MixerInv, AdoptionOK
<1>4. Cpu1OK'
  BY <1>1, <1>2 DEF MixerInv, Cpu1OK
<1> QED
  BY <1>3, <1>4
-----------------------------------------------------------------------------
(* The windows.                                                            *)

\* What a write to the register window leaves in the bank.
LEMMA AcceptedIsWord ==
  ASSUME MixerAssumption, BankOK, NEW w,
         Accepts(w), Valid(w) => w \in Word
  PROVE  request' \in Word /\ asked' \subseteq Word /\ request' \in asked' /\ asked \subseteq asked'
BY DEF Accepts, BankOK

LEMMA PokeStep ==
  ASSUME MixerAssumption, MixerInv, Poke
  PROVE  BankOK' /\ asked \subseteq asked'
<1>1. PICK l \in PokedLevels : Accepts([Default EXCEPT !.master = l])
  BY DEF Poke
<1>2. Valid([Default EXCEPT !.master = l]) => [Default EXCEPT !.master = l] \in Word
  <2>1. Default \in Word
    BY Words
  <2>2. Valid([Default EXCEPT !.master = l]) => l \in Levels
    BY <2>1, Words
  <2>3. l \in Levels => [Default EXCEPT !.master = l] \in Word
    BY <2>1, SettingTypes DEF Sliders
  <2> QED
    BY <2>2, <2>3
<1>3. input_count' \in Nat
  BY DEF Poke, Input, MixerInv, BankOK
<1>4. BankOK /\ Default \in asked
  BY DEF MixerInv, BankOK
<1> HIDE DEF BankOK
<1>5. request' \in Word /\ asked' \subseteq Word /\ request' \in asked' /\ asked \subseteq asked'
  <2> PICK w : w = [Default EXCEPT !.master = l]
    OBVIOUS
  <2>1. Accepts(w) /\ (Valid(w) => w \in Word)
    BY <1>1, <1>2
  <2> QED
    BY <1>4, <2>1, AcceptedIsWord
<1> QED
  BY <1>3, <1>4, <1>5 DEF BankOK

\* A window becomes another good one.
LEMMA WindowReplaced ==
  ASSUME WindowsOK, NEW g \in Guis, NEW s, Becomes(g, s),
         held' \in [Guis -> Sliders \cup {"none"}],
         \A h \in Guis \ {g} : held'[h] = held[h],
         GoodWindow(s, held'[g])
  PROVE  WindowsOK'
<1>1. gui' = [gui EXCEPT ![g] = s] /\ s \in Windows
  BY DEF Becomes, GoodWindow
<1>2. gui' \in [Guis -> Windows]
  BY <1>1 DEF WindowsOK
<1>3. \A h \in Guis : gui'[h] = IF h = g THEN s ELSE gui[h]
  BY <1>1 DEF WindowsOK
<1>4. \A h \in Guis : GoodWindow(gui[h], held[h])
  BY DEF WindowsOK
<1>5. \A h \in Guis : GoodWindow(gui'[h], held'[h])
  BY <1>3, <1>4
<1>6. \A h \in Guis : GoodWindow(gui[h], held[h])'
  BY <1>5 DEF GoodWindow, Windows
<1> QED
  BY <1>2, <1>6 DEF WindowsOK, Windows

LEMMA UpdateStep ==
  ASSUME MixerAssumption, MixerInv, NEW g \in Guis, Update(g) \/ Tick(g)
  PROVE  WindowsOK'
<1> DEFINE s == gui[g]
<1>1. s \in Windows /\ held[g] \in Sliders \cup {"none"} /\ GoodWindow(s, held[g]) /\ request \in Word
      /\ WindowsOK /\ held \in [Guis -> Sliders \cup {"none"}] /\ applied \in Word \cup {NoWord}
  BY DEF MixerInv, WindowsOK, BankOK, Cpu1OK
<1>2. held' = held
  BY DEF Update, Tick, ReadHdmi, FindBackend, ReadRequest, ReadApplied, userVars
<1>3. SUFFICES \E t : Becomes(g, t) /\ GoodWindow(t, held[g])
  BY <1>1, <1>2, WindowReplaced
<1>4. CASE ReadHdmi(g)
  <2>1. ASSUME NEW pc \in {"adopt", "poll"}
        PROVE  GoodWindow([s EXCEPT !.pc = pc], held[g])
    <3> HIDE DEF s
    <3> QED
      BY <1>1 DEF GoodWindow, Windows
  <2>2. GoodWindow([Dropped(s) EXCEPT !.pc = "idle"], held[g])
    <3> HIDE DEF s
    <3> QED
      BY <1>1 DEF GoodWindow, Windows, Dropped
  <2> QED
    BY <1>4, <2>1, <2>2 DEF ReadHdmi
<1>5. CASE FindBackend(g)
  <2>1. Valid(request)
    BY <1>1, Words
  <2>2. Becomes(g, [Load(s, request) EXCEPT !.backend = TRUE, !.pc = "poll"])
    BY <1>5, <2>1 DEF FindBackend
  <2>3. GoodWindow([Load(s, request) EXCEPT !.backend = TRUE, !.pc = "poll"], held[g])
    <3> HIDE DEF s
    <3> QED
      BY <1>1 DEF GoodWindow, Windows, Load
  <2> QED
    BY <2>2, <2>3
<1>6. CASE ReadRequest(g)
  <2>1. Becomes(g, [s EXCEPT !.word = request, !.pc = "ack"])
    BY <1>6 DEF ReadRequest
  <2>2. GoodWindow([s EXCEPT !.word = request, !.pc = "ack"], held[g])
    <3> HIDE DEF s
    <3> QED
      BY <1>1 DEF GoodWindow, Windows
  <2> QED
    BY <2>1, <2>2
<1>7. CASE ReadApplied(g)
  <2> DEFINE t == [s EXCEPT !.applied = applied, !.pc = "idle", !.word = NoWord]
  <2>1. s.pc = "ack" /\ s.word \in Word /\ Valid(s.word)
    BY <1>1, <1>7, Words DEF ReadApplied, GoodWindow
  <2>2. Becomes(g, IF Follows(s) THEN Load(t, s.word) ELSE t)
    BY <1>7, <2>1 DEF ReadApplied
  <2>3. t \in Windows /\ t.backend = s.backend /\ t.requested = s.requested /\ t.pc = "idle"
        /\ t.slider = s.slider
    <3> HIDE DEF s
    <3> QED
      BY <1>1 DEF Windows
  <2>4. GoodWindow(t, held[g])
    <3> HIDE DEF t
    <3> QED
      BY <1>1, <2>3 DEF GoodWindow
  <2>5. GoodWindow(Load(t, s.word), held[g])
    <3> PICK w : w = s.word
      OBVIOUS
    <3>1. w \in Word
      BY <2>1
    <3> HIDE DEF t, s
    <3>2. GoodWindow(Load(t, w), held[g])
      BY <2>3, <2>4, <3>1 DEF GoodWindow, Windows, Load
    <3> QED
      BY <3>2
  <2> HIDE DEF t, s
  <2> QED
    BY <2>2, <2>4, <2>5
<1>8. CASE Tick(g)
  <2>1. Becomes(g, [s EXCEPT !.pc = "flags"])
    BY <1>8 DEF Tick
  <2>2. GoodWindow([s EXCEPT !.pc = "flags"], held[g])
    <3> HIDE DEF s
    <3> QED
      BY <1>1 DEF GoodWindow, Windows
  <2> QED
    BY <2>1, <2>2
<1> QED
  BY <1>4, <1>5, <1>6, <1>7, <1>8 DEF Update
LEMMA SendStep ==
  ASSUME MixerAssumption, MixerInv, NEW g \in Guis, Send(g)
  PROVE  WindowsOK' /\ BankOK' /\ asked \subseteq asked'
<1> DEFINE s == gui[g]
<1>1. s \in Windows /\ GoodWindow(s, held[g]) /\ request \in Word /\ s.ctl \in Word
      /\ WindowsOK /\ held \in [Guis -> Sliders \cup {"none"}] /\ BankOK
  BY DEF MixerInv, WindowsOK, BankOK, Windows
<1>2. held' = held /\ input_count' = input_count
  BY DEF Send, WriteRequest, ReadBack, userVars
<1>3. CASE WriteRequest(g)
  <2>1. Becomes(g, [s EXCEPT !.pc = "readback"]) /\ Accepts(s.ctl)
    BY <1>3 DEF WriteRequest
  <2>2. GoodWindow([s EXCEPT !.pc = "readback"], held[g])
    <3> HIDE DEF s
    <3> QED
      BY <1>1 DEF GoodWindow, Windows
  <2>3. WindowsOK'
    BY <1>1, <1>2, <2>1, <2>2, WindowReplaced
  <2>4. request' \in Word /\ asked' \subseteq Word /\ request' \in asked' /\ asked \subseteq asked'
    BY <1>1, <2>1, AcceptedIsWord
  <2> QED
    BY <1>1, <1>2, <2>3, <2>4 DEF BankOK
<1>4. CASE ReadBack(g)
  <2> DEFINE t == [s EXCEPT !.requested = request, !.pc = "flags"]
  <2>1. \E b \in BOOLEAN : Becomes(g, IF b THEN t ELSE Dropped(t))
    BY <1>4 DEF ReadBack
  <2>2. GoodWindow(t, held[g]) /\ GoodWindow(Dropped(t), held[g])
    <3> HIDE DEF s
    <3>1. GoodWindow(t, held[g])
      BY <1>1 DEF GoodWindow, Windows
    <3> HIDE DEF t
    <3>2. GoodWindow(Dropped(t), held[g])
      BY <3>1 DEF GoodWindow, Windows, Dropped
    <3> QED
      BY <3>1, <3>2
  <2> HIDE DEF t
  <2>3. WindowsOK'
    BY <1>1, <1>2, <2>1, <2>2, WindowReplaced
  <2>4. UNCHANGED <<request, asked>>
    BY <1>4 DEF ReadBack, bankVars
  <2> QED
    BY <1>1, <1>2, <2>3, <2>4 DEF BankOK
<1> QED
  BY <1>3, <1>4 DEF Send

\* What the user makes of a window that waits for him.
LEMMA ChangedIsGood ==
  ASSUME NEW s \in Windows, NEW c \in Word, s.backend => s.requested \in Word
  PROVE  /\ Changed(s, c) \in Windows
         /\ Changed(s, c).pc \in {"write", "flags"}
         /\ Changed(s, c).slider = s.slider
         /\ Changed(s, c).backend = s.backend
         /\ Changed(s, c).requested = s.requested
BY DEF Changed, Windows

LEMMA UserStep ==
  ASSUME MixerAssumption, MixerInv, NEW g \in Guis, User(g) \/ Release(g)
  PROVE  WindowsOK' /\ BankOK' /\ asked \subseteq asked'
<1> DEFINE s == gui[g]
<1>1. s \in Windows /\ s.ctl \in Word /\ s.backend \in BOOLEAN /\ GoodWindow(s, held[g])
      /\ WindowsOK /\ held \in [Guis -> Sliders \cup {"none"}] /\ BankOK
      /\ (s.backend => s.requested \in Word) /\ (s.slider # "none" => s.backend /\ held[g] = s.slider)
      /\ s.slider \in Sliders \cup {"none"}
  BY DEF MixerInv, WindowsOK, Windows, GoodWindow
<1>2. BankOK' /\ asked \subseteq asked'
  <2>1. UNCHANGED <<request, asked>>
    BY DEF User, Release, Press, Move, Click, Open, Close, bankVars
  <2>2. input_count' = input_count \/ input_count' = input_count + 1
    BY DEF User, Release, Press, Move, Click, Open, Close, Input, userVars
  <2> QED
    BY <1>1, <2>1, <2>2 DEF BankOK
<1>3. SUFFICES \E t : /\ Becomes(g, t) /\ held' \in [Guis -> Sliders \cup {"none"}]
                      /\ \A h \in Guis \ {g} : held'[h] = held[h]
                      /\ GoodWindow(t, held'[g])
  BY <1>1, <1>2, WindowReplaced
<1>4. CASE Press(g)
  <2>1. s.slider = "none"
    BY <1>1, <1>4 DEF Press, Sliders
  <2>2. PICK k \in Sliders, l \in Levels :
          LET t == Changed(s, [s.ctl EXCEPT ![k] = l]) IN
          /\ held' = [held EXCEPT ![g] = k]
          /\ Becomes(g, [t EXCEPT !.slider = IF t.backend THEN k ELSE t.slider])
    BY <1>4 DEF Press
  <2> DEFINE t == Changed(s, [s.ctl EXCEPT ![k] = l])
  <2>3. t \in Windows /\ t.pc \in {"write", "flags"} /\ t.slider = "none"
        /\ t.backend = s.backend /\ t.requested = s.requested
    <3>1. [s.ctl EXCEPT ![k] = l] \in Word
      BY <1>1, SettingTypes
    <3> HIDE DEF s
    <3> QED
      BY <1>1, <2>1, <3>1, ChangedIsGood
  <2> DEFINE u == [t EXCEPT !.slider = IF t.backend THEN k ELSE t.slider]
  <2>4. Becomes(g, u) /\ held' = [held EXCEPT ![g] = k]
    BY <2>2
  <2>5. GoodWindow(u, k)
    <3> HIDE DEF t, s
    <3> QED
      BY <1>1, <2>3 DEF GoodWindow, Windows, Sliders
  <2> HIDE DEF u
  <2> QED
    BY <1>1, <2>4, <2>5
<1>5. CASE Move(g)
  <2>1. s.slider \in Sliders
    BY <1>1, <1>5 DEF Move
  <2>2. PICK l \in Levels : Becomes(g, Changed(s, [s.ctl EXCEPT ![s.slider] = l])) /\ held' = held
    BY <1>5 DEF Move
  <2>3. [s.ctl EXCEPT ![s.slider] = l] \in Word
    <3> PICK k \in Sliders, w \in Word : k = s.slider /\ w = s.ctl
      BY <1>1, <2>1
    <3>1. [w EXCEPT ![k] = l] \in Word
      BY SettingTypes
    <3> QED
      BY <3>1
  <2> DEFINE t == Changed(s, [s.ctl EXCEPT ![s.slider] = l])
  <2>4. GoodWindow(t, held[g])
    <3>1. t \in Windows /\ t.pc \in {"write", "flags"} /\ t.slider = s.slider
          /\ t.backend = s.backend /\ t.requested = s.requested
      BY <1>1, <2>3, ChangedIsGood
    <3> HIDE DEF s, t
    <3> QED
      BY <1>1, <3>1 DEF GoodWindow
  <2> HIDE DEF t
  <2> QED
    BY <1>1, <2>2, <2>4 DEF t
<1>6. CASE Click(g)
  <2>1. PICK k \in Clicks : Becomes(g, Changed(s, Clicked(s.ctl, k))) /\ held' = held
    BY <1>6 DEF Click
  <2>2. Clicked(s.ctl, k) \in Word
    BY <1>1, SettingTypes DEF MixerAssumption
  <2> DEFINE t == Changed(s, Clicked(s.ctl, k))
  <2>3. GoodWindow(t, held[g])
    <3>1. t \in Windows /\ t.pc \in {"write", "flags"} /\ t.slider = s.slider
          /\ t.backend = s.backend /\ t.requested = s.requested
      BY <1>1, <2>2, ChangedIsGood
    <3> HIDE DEF s, t
    <3> QED
      BY <1>1, <3>1 DEF GoodWindow
  <2> HIDE DEF t
  <2> QED
    BY <1>1, <2>1, <2>3 DEF t
<1>7. CASE Open(g) \/ Close(g)
  <2>1. GoodWindow(Opened, held[g]) /\ GoodWindow(Closed, held[g])
    BY Words DEF Opened, Closed, GoodWindow, Windows
  <2>2. held' = held /\ (Becomes(g, Opened) \/ Becomes(g, Closed))
    BY <1>7 DEF Open, Close, userVars
  <2> QED
    BY <1>1, <2>1, <2>2
<1>8. CASE Release(g)
  <2> DEFINE t == Changed(s, s.ctl)
             u == [t EXCEPT !.slider = IF t.backend THEN "none" ELSE t.slider]
  <2>1. Becomes(g, u) /\ held' = [held EXCEPT ![g] = "none"]
    BY <1>8 DEF Release
  <2>2. t \in Windows /\ t.pc \in {"write", "flags"} /\ t.slider = s.slider
        /\ t.backend = s.backend /\ t.requested = s.requested
    BY <1>1, ChangedIsGood
  <2>3. GoodWindow(u, "none")
    <3> HIDE DEF t, s
    <3> QED
      BY <1>1, <2>2 DEF GoodWindow, Windows
  <2> HIDE DEF u
  <2> QED
    BY <1>1, <2>1, <2>3
<1> QED
  BY <1>4, <1>5, <1>6, <1>7, <1>8 DEF User
-----------------------------------------------------------------------------
(* The invariant and what follows from it.                                 *)

LEMMA MixerStep ==
  ASSUME MixerAssumption, MixerInv, [MixerNext]_mixerVars
  PROVE  MixerInv'
\* A longer history changes nothing for CPU1, nor does a step of its own for
\* the bank and the windows.
<1>1. ASSUME UNCHANGED cpu1Vars, asked \subseteq asked'
      PROVE  Cpu1OK' /\ AdoptionOK'
  <2>1. Cpu1OK' /\ AdoptionOK
    BY <1>1 DEF MixerInv, Cpu1OK, cpu1Vars
  <2>2. AdoptionOK'
    BY <1>1, <2>1 DEF AdoptionOK, AdoptedAt, cpu1Vars
  <2> QED
    BY <2>1, <2>2
<1>2. ASSUME UNCHANGED <<bankVars, gui, userVars>>
      PROVE  WindowsOK' /\ BankOK'
  BY <1>2 DEF MixerInv, WindowsOK, BankOK, bankVars, userVars
<1>3. CASE Poke
  <2>1. UNCHANGED <<cpu1Vars, gui, held>>
    BY <1>3 DEF Poke
  <2>2. WindowsOK'
    BY <2>1 DEF MixerInv, WindowsOK
  <2> QED
    BY <1>1, <1>3, <2>1, <2>2, PokeStep DEF MixerInv
<1>4. CASE CPU1 \/ FifoStalls
  <2>1. Cpu1OK' /\ AdoptionOK'
    BY <1>4, SampleStep, AdoptStep, AcknowledgeStep, OutputStep DEF CPU1
  <2>2. UNCHANGED <<bankVars, gui, userVars>>
    BY <1>4 DEF CPU1, FifoStalls, HdmiInit, Sample, Adopt, Acknowledge
  <2> QED
    BY <1>2, <2>1, <2>2 DEF MixerInv
<1>5. ASSUME NEW g \in Guis, User(g) \/ Release(g) PROVE MixerInv'
  <2>1. UNCHANGED cpu1Vars
    BY <1>5 DEF User, Release, Press, Move, Click, Open, Close
  <2> QED
    BY <1>1, <1>5, <2>1, UserStep DEF MixerInv
<1>6. ASSUME NEW g \in Guis, Update(g) \/ Tick(g) PROVE MixerInv'
  <2>1. UNCHANGED <<bankVars, cpu1Vars, userVars>>
    BY <1>6 DEF Update, Tick, ReadHdmi, FindBackend, ReadRequest, ReadApplied
  <2>2. BankOK' /\ asked \subseteq asked'
    BY <2>1 DEF MixerInv, BankOK, bankVars, userVars
  <2> QED
    BY <1>1, <1>6, <2>1, <2>2, UpdateStep DEF MixerInv
<1>7. ASSUME NEW g \in Guis, Send(g) PROVE MixerInv'
  <2>1. UNCHANGED cpu1Vars
    BY <1>7 DEF Send, WriteRequest, ReadBack
  <2> QED
    BY <1>1, <1>7, <2>1, SendStep DEF MixerInv
<1>8. CASE UNCHANGED mixerVars
  BY <1>1, <1>2, <1>8 DEF mixerVars, bankVars, cpu1Vars, userVars, MixerInv
<1> QED
  BY <1>3, <1>4, <1>5, <1>6, <1>7, <1>8 DEF MixerNext

LEMMA MixerAlways ==
  ASSUME MixerAssumption
  PROVE  MixerSpec => []MixerInv
<1>1. MixerInit => MixerInv
  BY MixerStart
<1>2. MixerInv /\ [MixerNext]_mixerVars => MixerInv'
  BY MixerStep
<1> QED
  BY <1>1, <1>2, PTL DEF MixerSpec

(* The bank holds whole, valid words only, whatever is written to it         *)
(* (paula_probe.c); a window loses the backend with the output and never     *)
(* over a word, and without the backend it remembers no slider               *)
(* (PaulaMixer.c).                                                           *)
THEOREM TypeCorrect ==
  ASSUME MixerAssumption
  PROVE  MixerSpec => []MixerTypeOK
<1>1. MixerInv => MixerTypeOK
  <2> SUFFICES ASSUME MixerInv PROVE MixerTypeOK
    OBVIOUS
  <2>1. \A g \in DOMAIN gui : gui[g].ctl \in Word
                              /\ (gui[g].slider # "none" => gui[g].backend /\ held[g] = gui[g].slider)
    BY DEF MixerInv, WindowsOK, GoodWindow, Windows
  <2> QED
    BY <2>1 DEF MixerInv, BankOK, Cpu1OK, MixerTypeOK
<1> QED
  BY <1>1, MixerAlways, PTL

LEMMA InForce ==
  ASSUME MixerInv
  PROVE  AckedIsInForce
<1>1. Default \in asked /\ applied \in asked \cup {NoWord}
  BY DEF MixerInv, BankOK, Cpu1OK
<1> QED
  BY <1>1 DEF MixerInv, AdoptionOK, AckedIsInForce

\* A window that has read its own request in PM_APPLIED.
LEMMA HonestAck ==
  ASSUME MixerAssumption, MixerInv, NEW g \in Guis,
         ReadApplied(g), gui'[g].backend, gui'[g].applied = gui'[g].requested
  PROVE  core = gui'[g].applied \/ (applier.pc # "top" /\ applier.word # gui'[g].applied)
<1> DEFINE s == gui[g]
           t == [s EXCEPT !.applied = applied, !.pc = "idle", !.word = NoWord]
<1>1. s \in Windows /\ s.pc = "ack" /\ s.word \in Word /\ (s.backend => s.requested \in Word)
  BY DEF MixerInv, WindowsOK, GoodWindow, ReadApplied
<1>2. gui'[g] = IF Follows(s) THEN Load(t, s.word) ELSE t
  <2>1. Valid(s.word)
    BY <1>1, Words
  <2>2. Becomes(g, IF Follows(s) THEN Load(t, s.word) ELSE t) /\ gui \in [Guis -> Windows]
    BY <2>1 DEF ReadApplied, MixerInv, WindowsOK
  <2> HIDE DEF t
  <2> QED
    BY <2>2 DEF Becomes
<1>3. t \in Windows /\ t.requested = s.requested /\ t.backend = s.backend /\ t.applied = applied
  <2>1. applied \in Word \cup {NoWord}
    BY DEF MixerInv, BankOK, Cpu1OK
  <2> HIDE DEF s
  <2> QED
    BY <1>1, <2>1 DEF Windows
<1>4. gui'[g].applied = applied /\ gui'[g].requested \in Word
  <2> PICK w \in Word : w = s.word
    BY <1>1
  <2>1. Load(t, w).applied = applied /\ Load(t, w).requested = w
    <3> HIDE DEF t
    <3> QED
      BY <1>3 DEF Load, Windows
  <2>2. CASE Follows(s)
    <3> HIDE DEF t, s
    <3> QED
      BY <1>2, <2>1, <2>2
  <2>3. CASE ~ Follows(s)
    <3> HIDE DEF t, s
    <3> QED
      BY <1>1, <1>2, <1>3, <2>3
  <2> QED
    BY <2>2, <2>3
<1>5. applied # NoWord
  BY <1>4, Words
<1> QED
  BY <1>4, <1>5 DEF MixerInv, AdoptionOK

(* paula_live_mixer_apply, and the PaulaMixer windows that read PM_APPLIED:  *)
(* between two adoptions the settings in force are the acknowledged ones,    *)
(* all from one word; and a window that reads its own request there finds it *)
(* in force, or CPU1 is adopting a later word.                               *)
THEOREM AcksAlwaysHonest ==
  ASSUME MixerAssumption
  PROVE  MixerSpec => AcksAreHonest
<1>1. MixerInv => AckedIsInForce
  BY InForce
<1>2. MixerInv /\ [MixerNext]_mixerVars =>
        [\A g \in DOMAIN gui :
           ReadApplied(g) /\ gui'[g].backend /\ gui'[g].applied = gui'[g].requested =>
             core = gui'[g].applied \/ (applier.pc # "top" /\ applier.word # gui'[g].applied)]_mixerVars
  <2>1. MixerInv => DOMAIN gui = Guis
    BY DEF MixerInv, WindowsOK
  <2> QED
    BY <2>1, HonestAck
<1> QED
  BY <1>1, <1>2, MixerAlways, PTL DEF MixerSpec, AcksAreHonest, NeverAckedEarly
-----------------------------------------------------------------------------
(* One window alone.                                                       *)

\* The settings of a window that has found the backend are the requested ones;
\* when it is about to ask for others, for all or for one.
SoleWindow(s, r) ==
  /\ s.backend /\ s.pc # "write" => s.ctl = r
  /\ s.pc \in {"write", "readback"} => s.backend
  /\ s.pc = "ack" => s.word = r
  /\ s.pc = "write" => \/ s.ctl = Default
                       \/ \E k \in Fields : \A f \in Fields \ {k} : s.ctl[f] = r[f]

SoleInv == \A g \in Guis : SoleWindow(gui[g], request)

\* The user changes all settings to the defaults, or one.
LEMMA ChangedIsSole ==
  ASSUME NEW s \in Windows, NEW c \in Word, NEW r, s.pc = "idle", SoleWindow(s, r),
         \/ c = Default
         \/ \E k \in Fields : \A f \in Fields \ {k} : c[f] = s.ctl[f]
  PROVE  SoleWindow(Changed(s, c), r)
<1>1. CASE s.backend
  <2>1. s.ctl = r
    BY <1>1 DEF SoleWindow
  <2>2. Changed(s, c).pc = "write" /\ Changed(s, c).backend /\ Changed(s, c).ctl = c
    BY <1>1 DEF Changed, Windows
  <2> QED
    BY <2>1, <2>2 DEF SoleWindow
<1>2. CASE ~ s.backend
  BY <1>2 DEF Changed, Windows, SoleWindow
<1> QED
  BY <1>1, <1>2

LEMMA SoleUpdate ==
  ASSUME MixerAssumption, MixerInv, SoleInv, NEW g \in Guis, Update(g) \/ Tick(g) \/ ReadBack(g)
  PROVE  SoleWindow(gui'[g], request)
<1> DEFINE s == gui[g]
<1>1. s \in Windows /\ SoleWindow(s, request) /\ GoodWindow(s, held[g]) /\ gui \in [Guis -> Windows]
      /\ applied \in Word \cup {NoWord} /\ request \in Word
  BY DEF MixerInv, WindowsOK, SoleInv, Cpu1OK, BankOK
<1>2. \A t : Becomes(g, t) => gui'[g] = t
  BY <1>1 DEF Becomes
<1>3. CASE ReadHdmi(g)
  <2>1. s.pc = "flags"
    BY <1>3 DEF ReadHdmi
  <2>2. ASSUME NEW pc \in {"adopt", "poll"} PROVE SoleWindow([s EXCEPT !.pc = pc], request)
    <3> HIDE DEF s
    <3> QED
      BY <1>1, <2>1 DEF SoleWindow, Windows
  <2>3. SoleWindow([Dropped(s) EXCEPT !.pc = "idle"], request)
    <3> HIDE DEF s
    <3> QED
      BY <1>1 DEF SoleWindow, Windows, Dropped
  <2> QED
    BY <1>2, <1>3, <2>2, <2>3 DEF ReadHdmi
<1>4. CASE FindBackend(g)
  <2>1. Becomes(g, [Load(s, request) EXCEPT !.backend = TRUE, !.pc = "poll"])
    BY <1>1, <1>4, Words DEF FindBackend
  <2>2. SoleWindow([Load(s, request) EXCEPT !.backend = TRUE, !.pc = "poll"], request)
    <3> HIDE DEF s
    <3> QED
      BY <1>1 DEF SoleWindow, Windows, Load
  <2> QED
    BY <1>2, <2>1, <2>2
<1>5. CASE ReadRequest(g)
  <2>1. Becomes(g, [s EXCEPT !.word = request, !.pc = "ack"]) /\ s.pc = "poll"
    BY <1>5 DEF ReadRequest
  <2>2. SoleWindow([s EXCEPT !.word = request, !.pc = "ack"], request)
    <3> HIDE DEF s
    <3> QED
      BY <1>1, <2>1 DEF SoleWindow, Windows
  <2> QED
    BY <1>2, <2>1, <2>2
<1>6. CASE ReadApplied(g)
  <2> DEFINE t == [s EXCEPT !.applied = applied, !.pc = "idle", !.word = NoWord]
  <2>1. s.pc = "ack" /\ s.word = request /\ Valid(s.word)
    BY <1>1, <1>6, Words DEF ReadApplied, SoleWindow
  <2>2. Becomes(g, IF Follows(s) THEN Load(t, request) ELSE t)
    BY <1>6, <2>1 DEF ReadApplied
  <2>3. t \in Windows /\ t.backend = s.backend /\ t.ctl = s.ctl /\ t.pc = "idle"
    <3> HIDE DEF s
    <3> QED
      BY <1>1 DEF Windows
  <2>4. SoleWindow(t, request)
    <3> HIDE DEF t
    <3> QED
      BY <1>1, <2>1, <2>3 DEF SoleWindow
  <2>5. SoleWindow(Load(t, request), request)
    <3> HIDE DEF t
    <3> QED
      BY <2>3 DEF SoleWindow, Windows, Load
  <2> HIDE DEF t, s
  <2> QED
    BY <1>2, <2>2, <2>4, <2>5
<1>7. CASE Tick(g)
  <2>1. Becomes(g, [s EXCEPT !.pc = "flags"]) /\ s.pc = "idle"
    BY <1>7 DEF Tick
  <2>2. SoleWindow([s EXCEPT !.pc = "flags"], request)
    <3> HIDE DEF s
    <3> QED
      BY <1>1, <2>1 DEF SoleWindow, Windows
  <2> QED
    BY <1>2, <2>1, <2>2
<1>8. CASE ReadBack(g)
  <2> DEFINE t == [s EXCEPT !.requested = request, !.pc = "flags"]
  <2>1. s.pc = "readback" /\ \E b \in BOOLEAN : Becomes(g, IF b THEN t ELSE Dropped(t))
    BY <1>8 DEF ReadBack
  <2>2. t \in Windows /\ t.backend = s.backend /\ t.ctl = s.ctl /\ t.pc = "flags"
    <3> HIDE DEF s
    <3> QED
      BY <1>1 DEF Windows
  <2>3. SoleWindow(t, request) /\ SoleWindow(Dropped(t), request)
    <3> HIDE DEF t
    <3>1. SoleWindow(t, request)
      BY <1>1, <2>1, <2>2 DEF SoleWindow
    <3>2. SoleWindow(Dropped(t), request)
      BY <2>2 DEF SoleWindow, Dropped, Windows
    <3> QED
      BY <3>1, <3>2
  <2> HIDE DEF t, s
  <2> QED
    BY <1>2, <2>1, <2>3
<1> QED
  BY <1>3, <1>4, <1>5, <1>6, <1>7, <1>8 DEF Update

\* What a window asks for is what the bank holds then.
LEMMA SoleWrite ==
  ASSUME MixerAssumption, MixerInv, SoleInv, NEW g \in Guis, WriteRequest(g)
  PROVE  SoleWindow(gui'[g], request')
<1> DEFINE s == gui[g]
<1>1. s \in Windows /\ s.pc = "write" /\ s.backend /\ gui \in [Guis -> Windows]
  BY DEF MixerInv, WindowsOK, WriteRequest, SoleInv, SoleWindow
<1>2. request' = s.ctl
  <2>1. s.ctl \in Word
    BY <1>1 DEF Windows
  <2> QED
    BY <2>1, Words DEF WriteRequest, Accepts
<1>3. gui'[g] = [s EXCEPT !.pc = "readback"]
  BY <1>1 DEF WriteRequest, Becomes
<1> HIDE DEF s
<1> QED
  BY <1>1, <1>2, <1>3 DEF SoleWindow, Windows

LEMMA SoleUser ==
  ASSUME MixerAssumption, MixerInv, SoleInv, NEW g \in Guis, User(g) \/ Release(g)
  PROVE  SoleWindow(gui'[g], request)
<1> DEFINE s == gui[g]
<1>1. s \in Windows /\ s.ctl \in Word /\ SoleWindow(s, request) /\ gui \in [Guis -> Windows]
      /\ s.slider \in Sliders \cup {"none"}
  BY DEF MixerInv, WindowsOK, SoleInv, Windows
<1>2. \A t : Becomes(g, t) => gui'[g] = t
  BY <1>1 DEF Becomes
<1>3. ASSUME NEW t \in Windows, NEW slider, SoleWindow(t, request)
      PROVE  SoleWindow([t EXCEPT !.slider = slider], request)
  BY <1>3 DEF SoleWindow, Windows
<1>4. ASSUME NEW k \in Sliders, NEW l \in Levels, s.pc = "idle"
      PROVE  LET t == Changed(s, [s.ctl EXCEPT ![k] = l]) IN t \in Windows /\ SoleWindow(t, request)
  <2> PICK c : c = [s.ctl EXCEPT ![k] = l]
    OBVIOUS
  <2>1. c \in Word
    BY <1>1, SettingTypes
  <2>2. k \in Fields /\ \A f \in Fields \ {k} : c[f] = s.ctl[f]
    <3> PICK w \in Word : w = s.ctl
      BY <1>1
    <3>1. k \in Fields /\ DOMAIN w = Fields
      BY Words DEF Fields, Sliders
    <3>2. \A f \in Fields \ {k} : [w EXCEPT ![k] = l][f] = w[f]
      BY <3>1
    <3> QED
      BY <3>1, <3>2
  <2>3. s.backend => s.requested \in Word
    BY DEF MixerInv, WindowsOK, GoodWindow
  <2> HIDE DEF s
  <2>4. Changed(s, c) \in Windows /\ SoleWindow(Changed(s, c), request)
    BY <1>1, <1>4, <2>1, <2>2, <2>3, ChangedIsGood, ChangedIsSole
  <2> QED
    BY <2>4
<1>5. CASE Press(g)
  <2>1. PICK k \in Sliders, l \in Levels :
          LET t == Changed(s, [s.ctl EXCEPT ![k] = l]) IN
          Becomes(g, [t EXCEPT !.slider = IF t.backend THEN k ELSE t.slider])
    BY <1>5 DEF Press
  <2> DEFINE t == Changed(s, [s.ctl EXCEPT ![k] = l])
             u == [t EXCEPT !.slider = IF t.backend THEN k ELSE t.slider]
  <2>2. t \in Windows /\ SoleWindow(t, request)
    BY <1>4, <1>5 DEF Press
  <2>3. Becomes(g, u)
    BY <2>1
  <2>4. SoleWindow(u, request)
    <3> HIDE DEF t
    <3> QED
      BY <1>3, <2>2
  <2> HIDE DEF u
  <2> QED
    BY <1>2, <2>3, <2>4
<1>6. CASE Move(g)
  <2>1. s.slider \in Sliders /\ s.pc = "idle"
    BY <1>1, <1>6 DEF Move
  <2>2. PICK l \in Levels : Becomes(g, Changed(s, [s.ctl EXCEPT ![s.slider] = l]))
    BY <1>6 DEF Move
  <2> DEFINE t == Changed(s, [s.ctl EXCEPT ![s.slider] = l])
  <2>3. SoleWindow(t, request)
    BY <1>4, <2>1
  <2> HIDE DEF t
  <2> QED
    BY <1>2, <2>2, <2>3 DEF t
<1>7. CASE Click(g)
  <2>1. PICK k \in Clicks : Becomes(g, Changed(s, Clicked(s.ctl, k)))
    BY <1>7 DEF Click
  <2>2. s.pc = "idle"
    BY <1>7 DEF Click
  <2>3. k \in {"interp", "mute", "defaults"}
    BY DEF MixerAssumption
  <2> DEFINE c == Clicked(s.ctl, k)
  <2>4. c \in Word /\ (c = Default \/ \E f \in Fields : \A h \in Fields \ {f} : c[h] = s.ctl[h])
    <3> PICK w \in Word : w = s.ctl
      BY <1>1
    <3>1. DOMAIN w = Fields
      BY Words
    <3>2. Clicked(w, k) = Default \/ \E f \in Fields : \A h \in Fields \ {f} : Clicked(w, k)[h] = w[h]
      <4>1. CASE k = "interp"
        <5>1. Clicked(w, k) = [w EXCEPT !.interp = ~ @]
          BY <4>1 DEF Clicked
        <5>2. \A h \in Fields \ {"interp"} : Clicked(w, k)[h] = w[h]
          BY <3>1, <5>1 DEF Fields
        <5> QED
          BY <5>2 DEF Fields
      <4>2. CASE k = "mute"
        <5>1. Clicked(w, k) = [w EXCEPT !.mute = ~ @]
          BY <4>2 DEF Clicked
        <5>2. \A h \in Fields \ {"mute"} : Clicked(w, k)[h] = w[h]
          BY <3>1, <5>1 DEF Fields
        <5> QED
          BY <5>2 DEF Fields
      <4>3. CASE k = "defaults"
        BY <4>3 DEF Clicked
      <4> QED
        BY <2>3, <4>1, <4>2, <4>3
    <3>3. Clicked(w, k) \in Word
      BY <2>3, SettingTypes
    <3> QED
      BY <3>2, <3>3
  <2> HIDE DEF c
  <2>5. SoleWindow(Changed(s, c), request)
    BY <1>1, <2>2, <2>4, ChangedIsSole
  <2> QED
    BY <1>2, <2>1, <2>5 DEF c
<1>8. CASE Open(g) \/ Close(g)
  <2>1. SoleWindow(Opened, request) /\ SoleWindow(Closed, request)
    BY DEF SoleWindow, Opened, Closed
  <2> QED
    BY <1>2, <1>8, <2>1 DEF Open, Close
<1>9. CASE Release(g)
  <2> DEFINE t == Changed(s, s.ctl)
             u == [t EXCEPT !.slider = IF t.backend THEN "none" ELSE t.slider]
  <2>1. Becomes(g, u) /\ s.pc = "idle"
    BY <1>9 DEF Release
  <2>2. t \in Windows /\ SoleWindow(t, request)
    <3>1. s.backend => s.requested \in Word
      BY DEF MixerInv, WindowsOK, GoodWindow
    <3>2. "mute" \in Fields /\ \A f \in Fields \ {"mute"} : s.ctl[f] = s.ctl[f]
      BY DEF Fields
    <3> HIDE DEF s
    <3> QED
      BY <1>1, <2>1, <3>1, <3>2, ChangedIsGood, ChangedIsSole
  <2>3. SoleWindow(u, request)
    <3> HIDE DEF t
    <3> QED
      BY <1>3, <2>2
  <2> HIDE DEF u
  <2> QED
    BY <1>2, <2>1, <2>3
<1> QED
  BY <1>5, <1>6, <1>7, <1>8, <1>9 DEF User
LEMMA SoleStep ==
  ASSUME MixerAssumption, NEW only, Guis = {only}, PokedLevels \cap Levels = {},
         MixerInv, SoleInv, [MixerNext]_mixerVars
  PROVE  SoleInv'
<1>1. SUFFICES SoleWindow(gui'[only], request')
  BY DEF SoleInv, SoleWindow
<1>2. SoleWindow(gui[only], request)
  BY DEF SoleInv
<1>3. CASE Poke
  <2>1. PICK l \in PokedLevels : Accepts([Default EXCEPT !.master = l])
    BY <1>3 DEF Poke
  <2>2. ~ Valid([Default EXCEPT !.master = l])
    <3>1. l \notin Levels /\ Default \in Word
      BY Words
    <3> QED
      BY <3>1, Words
  <2>3. request' = request
    BY <2>1, <2>2 DEF Accepts
  <2> QED
    BY <1>2, <1>3, <2>3 DEF Poke
<1>4. CASE CPU1 \/ FifoStalls
  BY <1>2, <1>4 DEF CPU1, FifoStalls, HdmiInit, Sample, Adopt, Acknowledge, bankVars
<1>5. ASSUME NEW g \in Guis, User(g) \/ Release(g) PROVE SoleWindow(gui'[g], request')
  <2>1. request' = request
    BY <1>5 DEF User, Release, Press, Move, Click, Open, Close, bankVars
  <2> QED
    BY <1>5, <2>1, SoleUser
<1>6. ASSUME NEW g \in Guis, Update(g) \/ Tick(g) \/ ReadBack(g) PROVE SoleWindow(gui'[g], request')
  <2>1. request' = request
    BY <1>6 DEF Update, Tick, ReadHdmi, FindBackend, ReadRequest, ReadApplied, ReadBack, bankVars
  <2> QED
    BY <1>6, <2>1, SoleUpdate
<1>7. CASE UNCHANGED mixerVars
  BY <1>2, <1>7 DEF mixerVars, bankVars
<1>8. only \in Guis
  OBVIOUS
<1> QED
  BY <1>3, <1>4, <1>5, <1>6, <1>7, <1>8, SoleWrite DEF MixerNext, Send

LEMMA SoleInvImplies ==
  ASSUME MixerAssumption, MixerInv, SoleInv
  PROVE  SoleWindowKeepsOthers
<1>1. DOMAIN gui = Guis /\ request \in Word /\ DOMAIN request = Fields
  BY Words DEF MixerInv, WindowsOK, BankOK
<1>2. ASSUME NEW g \in Guis, NEW k \in Fields, \A f \in Fields \ {k} : gui[g].ctl[f] = request[f]
      PROVE  Cardinality({f \in DOMAIN request : gui[g].ctl[f] # request[f]}) <= 1
  <2> DEFINE S == {f \in DOMAIN request : gui[g].ctl[f] # request[f]}
  <2>1. S \subseteq {k}
    BY <1>1, <1>2
  <2> HIDE DEF S
  <2>2. IsFiniteSet({k}) /\ Cardinality({k}) = 1
    BY FS_Singleton
  <2>3. Cardinality(S) <= 1
    BY <2>1, <2>2, FS_Subset
  <2> QED
    BY <2>3 DEF S
<1>3. ASSUME NEW g \in Guis, gui[g].pc = "write", gui[g].ctl # Default
      PROVE  Cardinality({f \in DOMAIN request : gui[g].ctl[f] # request[f]}) <= 1
  <2>1. PICK k \in Fields : \A f \in Fields \ {k} : gui[g].ctl[f] = request[f]
    BY <1>3 DEF SoleInv, SoleWindow
  <2> QED
    BY <1>2, <2>1
<1>4. \A g \in Guis : gui[g].backend /\ gui[g].pc # "write" => gui[g].ctl = request
  BY DEF SoleInv, SoleWindow
<1> QED
  BY <1>1, <1>3, <1>4 DEF SoleWindowKeepsOthers

\* The only window.
LEMMA OnlyWindow ==
  ASSUME MixerAssumption, NEW only, Guis = {only}, PokedLevels \cap Levels = {}
  PROVE  MixerSpec => []SoleWindowKeepsOthers
<1>1. MixerInit => SoleInv
  BY DEF MixerInit, SoleInv, SoleWindow, Closed, Opened
<1>2. MixerInv /\ SoleInv /\ [MixerNext]_mixerVars => SoleInv'
  BY SoleStep
<1>3. MixerInv /\ SoleInv => SoleWindowKeepsOthers
  BY SoleInvImplies
<1> QED
  BY <1>1, <1>2, <1>3, MixerAlways, PTL DEF MixerSpec

(* PaulaMixer.c: a window that is alone, while other programs write nothing  *)
(* that the bank accepts, always shows the requested settings, and what it   *)
(* asks for differs from them in the one setting the user touched, or is the *)
(* defaults he asked for.                                                    *)
THEOREM SoleWindowAlwaysKeepsOthers ==
  ASSUME MixerAssumption, PokedLevels \cap Levels = {}
  PROVE  MixerSpec => []SoleWindowKeepsOthers
<1>1. ASSUME NEW only, Guis = {only}
      PROVE  MixerSpec => []SoleWindowKeepsOthers
  BY <1>1, OnlyWindow
<1>2. CASE ~ \E g : Guis = {g}
  <2>1. MixerInv => SoleWindowKeepsOthers
    BY <1>2 DEF MixerInv, WindowsOK, SoleWindowKeepsOthers
  <2> QED
    BY <2>1, MixerAlways, PTL
<1> QED
  BY <1>1, <1>2
=============================================================================
