----------------------------- MODULE HdmiOutput -----------------------------
(***************************************************************************)
(* The HDMI side of CPU1 (hdmi_audio_poc_run without the replay, which     *)
(* EventMirror models) and the panel that CPU0 shows while the machine     *)
(* boots (hdmi_audio_poc_boot_test): the diagnostic mailbox between them,  *)
(* the stages of the initialisation, and the end of audio when the MAI     *)
(* FIFO does not drain.                                                    *)
(*                                                                         *)
(* A text is the number of its message, copied in two halves.  MMIO, the   *)
(* formatting of texts and the drawing of the panel are left out.          *)
(***************************************************************************)
EXTENDS Naturals, Sequences

CONSTANTS
  PocLines,   \* POC_LINES
  Rounds,     \* snapshots in the 10 s of the boot test
  Timeout,    \* ticks a message waits for the lock: 10 ms
  MaxFull,    \* ticks CPU1 waits for the FIFO: 250 ms
  MaxPosts    \* bound: messages before those of a failure

OutputAssumption ==
  /\ PocLines \in Nat \ {0} /\ Rounds \in Nat \ {0}
  /\ Timeout \in Nat /\ MaxFull \in Nat /\ MaxPosts \in Nat

VARIABLES
  lock, count, lines, status,   \* poc_diag
  cpu1,                         \* "init", "play", "fifo", "fail", "report", "halt"
  msg, live, text, row, spent,  \* poc_message: where it is; its live, its text; place; time waited
  full, waited,                 \* the FIFO is full; poc_wait_fifo: time waited
  mai_on, failed, rendering,   \* MAI_CTL_ENABLE, PP_FLAG_MAI_FAILED, PP_FLAG_RENDERING
  cpu0, round,                  \* hdmi_audio_poc_boot_test: where it is, snapshots done
  shown, copied,                \* the copies of count, lines and status; the rows copied
  posted,                       \* history: the texts put on the lines and in the status, in order
  taken                         \* history: how many of each there were when CPU0 took the lock

diag == <<lock, count, lines, status>>
message == <<msg, live, text, row, spent>>
audio == <<cpu1, full, waited, mai_on, failed, rendering>>
panel == <<cpu0, round, shown, copied, taken>>
outputVars == <<diag, message, audio, panel, posted>>

Rows == 1 .. PocLines
NoText == <<0, 0>>
Texts == 0 .. MaxPosts + 3

OutputInit ==
  /\ lock = FALSE /\ count = 0 /\ lines = [r \in Rows |-> NoText] /\ status = NoText
  /\ cpu1 = "init" /\ msg = "idle" /\ live = FALSE /\ text = 0 /\ row = 0 /\ spent = 0
  /\ full \in BOOLEAN /\ waited = 0
  /\ mai_on = FALSE /\ failed = FALSE /\ rendering = FALSE
  /\ cpu0 = "try" /\ round = 0 /\ copied = 0
  /\ shown = [count |-> 0, lines |-> [r \in Rows |-> NoText], status |-> NoText]
  /\ posted = [lines |-> <<>>, status |-> <<>>] /\ taken = [lines |-> 0, status |-> 0]

-----------------------------------------------------------------------------
(* poc_message on CPU1. *)

Post(l) ==
  /\ msg = "idle"
  /\ msg' = "try" /\ live' = l /\ text' = text + 1 /\ row' = 0 /\ spent' = 0

\* Fault: the lock is not looked at.
AcquiresAlways(l) == TRUE
Acquires(l) == ~l
\* Fault: the wait has no end.
ExpiresNever(t) == FALSE
Expires(t) == t >= Timeout

poc_try_lock ==
  /\ msg = "try"
  /\ IF Acquires(lock) THEN lock' = TRUE /\ msg' = "place"
     ELSE lock' = lock /\ msg' = IF Expires(spent) THEN "idle" ELSE "try"
  /\ UNCHANGED <<count, lines, status, live, text, row, spent, audio, panel, posted>>

HasRoom(n) == n < PocLines

\* A new line goes below the others, or they move up one by one.
Place ==
  /\ msg = "place"
  /\ IF live THEN row' = 0 /\ count' = count /\ msg' = "left"
     ELSE IF HasRoom(count) THEN row' = count + 1 /\ count' = count + 1 /\ msg' = "left"
     ELSE row' = 1 /\ count' = count /\ msg' = "shift"
  /\ UNCHANGED <<lock, lines, status, live, text, spent, audio, panel, posted>>

Shift ==
  /\ msg = "shift"
  /\ IF row = PocLines THEN msg' = "left" /\ UNCHANGED <<row, lines>>
     ELSE /\ lines' = [lines EXCEPT ![row] = lines[row + 1]]
          /\ row' = row + 1 /\ msg' = msg
  /\ UNCHANGED <<lock, count, status, live, text, spent, audio, panel, posted>>

\* The text is copied: its left half, then its right.
Copy(half, from, to) ==
  /\ msg = from /\ msg' = to
  /\ IF live THEN status' = [status EXCEPT ![half] = text] /\ lines' = lines
     ELSE lines' = [lines EXCEPT ![row][half] = text] /\ status' = status
  /\ UNCHANGED <<lock, count, live, text, row, spent, audio, panel, posted>>

poc_unlock ==
  /\ msg = "unlock" /\ msg' = "idle" /\ lock' = FALSE
  /\ posted' = IF live THEN [posted EXCEPT !.status = Append(posted.status, text)]
               ELSE [posted EXCEPT !.lines = Append(posted.lines, text)]
  /\ UNCHANGED <<count, lines, status, live, text, row, spent, audio, panel>>

Message ==
  \/ poc_try_lock \/ Place \/ Shift
  \/ Copy(1, "left", "right") \/ Copy(2, "right", "unlock")
  \/ poc_unlock

-----------------------------------------------------------------------------
(* CPU1. *)

Free == msg = "idle" /\ UNCHANGED <<diag, panel, posted>>

\* hdmi_audio_init reports a stage.
Report ==
  /\ Free /\ cpu1 = "init" /\ text < MaxPosts /\ Post(FALSE)
  /\ UNCHANGED audio

\* A stage fails: PP_MAI_ERROR 1.
InitFails ==
  /\ Free /\ cpu1 = "init" /\ Post(TRUE)
  /\ failed' = TRUE /\ cpu1' = "halt"
  /\ UNCHANGED <<full, waited, mai_on, rendering>>

InitEnds ==
  /\ Free /\ cpu1 = "init" /\ cpu1' = "play"
  /\ mai_on' = TRUE /\ rendering' = TRUE
  /\ UNCHANGED <<message, full, waited, failed>>

\* A report of the replay: a resynchronisation, or the state once a second.
Remark(l) ==
  /\ Free /\ cpu1 = "play" /\ text < MaxPosts /\ Post(l)
  /\ UNCHANGED audio

\* A sample is ready: poc_wait_fifo.
SampleReady ==
  /\ Free /\ cpu1 = "play" /\ cpu1' = "fifo" /\ waited' = 0
  /\ UNCHANGED <<message, full, mai_on, failed, rendering>>

\* Fault: the time is not looked at.
GivesUpNever(t) == FALSE
GivesUp(t) == t >= MaxFull

\* The write to HD_MAI_DATA that follows may fill the FIFO.
poc_wait_fifo ==
  /\ Free /\ cpu1 = "fifo"
  /\ IF full THEN full' = full /\ cpu1' = IF GivesUp(waited) THEN "fail" ELSE "fifo"
     ELSE full' \in BOOLEAN /\ cpu1' = "play"
  /\ UNCHANGED <<message, waited, mai_on, failed, rendering>>

Fail ==
  /\ Free /\ cpu1 = "fail" /\ Post(FALSE) /\ cpu1' = "report"
  /\ UNCHANGED <<full, waited, mai_on, failed, rendering>>

Halt ==
  /\ Free /\ cpu1 = "report" /\ Post(TRUE) /\ cpu1' = "stop"
  /\ UNCHANGED <<full, waited, mai_on, failed, rendering>>

Stop ==
  /\ Free /\ cpu1 = "stop" /\ cpu1' = "halt"
  /\ failed' = TRUE /\ rendering' = FALSE /\ mai_on' = FALSE
  /\ UNCHANGED <<message, full, waited>>

Cpu1 ==
  \/ Message
  \/ Report \/ InitFails \/ InitEnds \/ Remark(TRUE) \/ Remark(FALSE)
  \/ SampleReady \/ poc_wait_fifo \/ Fail \/ Halt \/ Stop

-----------------------------------------------------------------------------
(* CPU0: the boot test. *)

Keeps == UNCHANGED <<count, lines, status, message, audio, posted>>

Posted == [lines |-> Len(posted.lines), status |-> Len(posted.status)]

\* Fault: CPU0 waits for the lock.
NextRoundWaits == "try"
NextRound == "splash"

TrySnapshot ==
  /\ cpu0 = "try" /\ copied' = 0
  /\ IF lock THEN lock' = lock /\ cpu0' = NextRound /\ UNCHANGED <<shown, taken>>
     ELSE /\ lock' = TRUE /\ cpu0' = "copy" /\ taken' = Posted
          /\ shown' = [shown EXCEPT !.count = count]
  /\ UNCHANGED round /\ Keeps

\* A row at a time, the status last.
CopyRow ==
  /\ cpu0 = "copy" /\ copied < PocLines
  /\ shown' = [shown EXCEPT !.lines[copied + 1] = lines[copied + 1]]
  /\ copied' = copied + 1
  /\ UNCHANGED <<lock, cpu0, round, taken>> /\ Keeps

CopyStatus ==
  /\ cpu0 = "copy" /\ copied = PocLines
  /\ shown' = [shown EXCEPT !.status = status]
  /\ lock' = FALSE /\ cpu0' = "splash"
  /\ UNCHANGED <<round, copied, taken>> /\ Keeps

\* The panel is drawn; after 10 s the last snapshot is, and the 68k starts.
Splash ==
  /\ cpu0 = "splash"
  /\ IF round < Rounds THEN cpu0' = "try" /\ round' = round + 1
     ELSE cpu0' = "emulate" /\ round' = round
  /\ UNCHANGED <<lock, shown, copied, taken>> /\ Keeps

Cpu0 == TrySnapshot \/ CopyRow \/ CopyStatus \/ Splash

-----------------------------------------------------------------------------
(* Time and the hardware. *)

WaitForLock ==
  /\ msg = "try" /\ spent < Timeout /\ spent' = spent + 1
  /\ UNCHANGED <<diag, msg, live, text, row, audio, panel, posted>>

WaitForFifo ==
  /\ cpu1 = "fifo" /\ waited < MaxFull /\ waited' = waited + 1
  /\ UNCHANGED <<diag, message, cpu1, full, mai_on, failed, rendering, panel, posted>>

Drain ==
  /\ mai_on /\ full /\ full' = FALSE
  /\ UNCHANGED <<diag, message, cpu1, waited, mai_on, failed, rendering, panel, posted>>

OutputNext == Cpu0 \/ Cpu1 \/ WaitForLock \/ WaitForFifo \/ Drain

OutputSpec == OutputInit /\ [][OutputNext]_outputVars

\* What CPU1 does without a choice.
Cpu1GoesOn == Message \/ InitEnds \/ SampleReady \/ poc_wait_fifo \/ Fail \/ Halt \/ Stop
Time == WaitForLock \/ WaitForFifo

\* Only CPU0 is sure to go on, or only CPU1 is, and time.
FairCpu0 == OutputSpec /\ WF_outputVars(Cpu0)
FairCpu1 == OutputSpec /\ WF_outputVars(Cpu1GoesOn) /\ WF_outputVars(Time)

-----------------------------------------------------------------------------
OutputTypeOK ==
  /\ lock \in BOOLEAN /\ count \in 0 .. PocLines /\ row \in 0 .. PocLines
  /\ lines \in [Rows -> Texts \X Texts] /\ status \in Texts \X Texts
  /\ cpu1 \in {"init", "play", "fifo", "fail", "report", "stop", "halt"}
  /\ msg \in {"idle", "try", "place", "shift", "left", "right", "unlock"}
  /\ live \in BOOLEAN /\ text \in Texts /\ spent \in 0 .. Timeout /\ waited \in 0 .. MaxFull
  /\ full \in BOOLEAN /\ mai_on \in BOOLEAN /\ failed \in BOOLEAN /\ rendering \in BOOLEAN
  /\ cpu0 \in {"try", "copy", "splash", "emulate"}
  /\ round \in 0 .. Rounds /\ copied \in 0 .. PocLines
  /\ posted \in [lines : Seq(Texts), status : Seq(Texts)]
  /\ taken \in [lines : 0 .. Len(posted.lines), status : 0 .. Len(posted.status)]
  /\ shown \in [count : 0 .. PocLines, lines : [Rows -> Texts \X Texts], status : Texts \X Texts]

\* The mailbox as it should be after so many lines and statuses: the last lines,
\* as many as there is room for, and the last status.
Below(a, b) == IF a < b THEN a ELSE b
Whole(t) == <<t, t>>
LineOf(n, r) == LET c == Below(n, PocLines) IN
                IF r <= c THEN Whole(posted.lines[n - c + r]) ELSE NoText
StatusOf(n) == IF n = 0 THEN NoText ELSE Whole(posted.status[n])
View(n) == [count |-> Below(n.lines, PocLines), lines |-> [r \in Rows |-> LineOf(n.lines, r)],
            status |-> StatusOf(n.status)]

(* The panel always shows the mailbox of one moment: the last lines in their *)
(* order and the last status, no text in parts and none lost but by its      *)
(* timeout.                                                                  *)
PanelIsWhole == cpu0 = "splash" => shown = View(taken)

(* CPU0 starts the 68k whatever CPU1 does, even if it stops with the lock.   *)
BootGoesOn == <>(cpu0 = "emulate")

(* A message ends even when CPU0 stops with the lock held, and so does the   *)
(* wait for a FIFO that is full for ever: audio is then switched off.        *)
MessageEnds == msg = "try" ~> msg = "idle"
StallEndsAudio == <>[]full => <>(failed /\ ~mai_on /\ ~rendering)

=============================================================================
