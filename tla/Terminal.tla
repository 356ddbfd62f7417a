------------------------------ MODULE Terminal ------------------------------
(***************************************************************************)
(* The relay between the user's terminal and an interactive Claude Code    *)
(* that runs in a pseudo-terminal (src/terminal/pty.rs), used to turn the  *)
(* paths and URLs it prints into links.  The relay is one loop around      *)
(* poll(): keystrokes go to the child, its output is put together into     *)
(* characters and lines, and what is left of a line is shown after 50 ms   *)
(* of silence.  It watches for the line that tells how to resume.          *)
(*                                                                         *)
(* Bytes: "a", "x", "y" are ASCII, "p" stands for the words `claude        *)
(* --resume ', "nl" is a newline, "l2" and "l3" lead a character of two or *)
(* three bytes and "c" continues one.  Keystrokes are only counted.  The   *)
(* links and the escape sequences, which leave the text alone, are left    *)
(* out.                                                                    *)
(***************************************************************************)
EXTENDS Integers, Sequences, SequencesExt, FiniteSetsExt

CONSTANTS
    Scripts,    \* what the child may print
    ReadMax,    \* the size of read_buf (4096 in the code)
    PtyRoom,    \* what the kernel keeps for a reader, in each direction
    MaxTyped    \* bound on the keystrokes

Bytes == {"a", "x", "y", "p", "nl", "l2", "l3", "c"}

ASSUME TerminalAssumption ==
    /\ Scripts \subseteq Seq(Bytes)
    /\ ReadMax \in Nat \ {0} /\ PtyRoom \in Nat \ {0} /\ MaxTyped \in Nat

VARIABLES
    child,              \* "alive" or "ended"
    todo,               \* what the child has yet to print
    written,            \* history: what it has printed
    master,             \* printed and not yet read by the relay
    typed,              \* history: keystrokes so far
    stdin,              \* keystrokes the relay has not read
    eof,                \* whether stdin is at its end
    keys,               \* keystrokes the child has not read
    pending,            \* keystrokes the relay has read and not written
    relay,              \* "polling", "writing" to the child, "hung up" or "stopped"
    line_buf,
    utf8_residual,
    resume_session_id,  \* << >> for None
    screen,             \* what the terminal has been sent
    cut,                \* history: where on the screen a timeout last cut a line, or 0
    returned            \* whether spawn_with_pty has returned

childVars == <<child, todo, written, typed, eof>>
inputVars == <<stdin, keys, pending>>
outputVars == <<line_buf, utf8_residual, resume_session_id, screen, cut>>
relayVars == <<childVars, master, inputVars, relay, outputVars, returned>>

----------------------------------------------------------------------------
(* Characters and lines.                                                   *)

\* How many bytes the character has that starts with byte b.
Length(b) == CASE b = "l2" -> 2 [] b = "l3" -> 3 [] OTHER -> 1

\* std::str::from_utf8 accepts s.
IsUtf8(s) ==
    \A i \in DOMAIN s :
        IF s[i] = "c"
        THEN \E j \in 1..(i - 1) : /\ i < j + Length(s[j])
                                   /\ \A k \in (j + 1)..i : s[k] = "c"
        ELSE \A k \in 1..(Length(s[i]) - 1) : i + k \in DOMAIN s /\ s[i + k] = "c"

\* Mutant: all of the data is taken for whole characters.
Utf8SafeEnd_All(s) == Len(s)

\* find_utf8_safe_end: looks back over at most four bytes for the start of the last
\* character, and leaves it for later if it is not complete.
Utf8SafeEnd(s) ==
    LET heads == {i \in DOMAIN s : i > Len(s) - 4 /\ s[i] # "c"} IN
    IF heads = {} THEN 0
    ELSE IF Max(heads) + Length(s[Max(heads)]) > Len(s) + 1 THEN Max(heads) - 1
    ELSE Len(s)

\* The whole characters of s; data with an invalid one among them is dropped.
Decoded(s) ==
    LET whole == SubSeq(s, 1, Utf8SafeEnd(s)) IN IF IsUtf8(whole) THEN whole ELSE << >>

\* The part of text up to its last newline, and what follows it.
LinesOf(text) == SubSeq(text, 1, SelectLastInSeq(text, LAMBDA b : b = "nl"))
RestOf(text) == SubSeq(text, SelectLastInSeq(text, LAMBDA b : b = "nl") + 1, Len(text))

\* The line of text that starts at i, and where the lines start that offer to resume.
LineAt(text, i) ==
    LET ends == {j \in i..Len(text) : text[j] = "nl"} IN
    SubSeq(text, i, IF ends = {} THEN Len(text) ELSE Min(ends) - 1)

Offers(text) ==
    {i \in DOMAIN text : /\ text[i] = "p" /\ Len(LineAt(text, i)) > 1
                         /\ i > 1 => text[i - 1] = "nl"}

\* Mutant: the first offer is kept.
DetectResume_First(text, id) ==
    IF id # << >> \/ Offers(text) = {} THEN id ELSE Tail(LineAt(text, Max(Offers(text))))

\* detect_resume_session, called with each line of text.
DetectResume(text, id) ==
    IF Offers(text) = {} THEN id ELSE Tail(LineAt(text, Max(Offers(text))))

----------------------------------------------------------------------------
RelayInit ==
    /\ child = "alive" /\ todo \in Scripts /\ written = << >> /\ master = << >>
    /\ typed = 0 /\ eof = FALSE /\ stdin = 0 /\ keys = 0 /\ pending = 0
    /\ relay = "polling" /\ line_buf = << >> /\ utf8_residual = << >>
    /\ resume_session_id = << >> /\ screen = << >> /\ cut = 0 /\ returned = FALSE

(* The child and the user.                                                 *)

Write ==
    /\ child = "alive" /\ todo # << >> /\ Len(master) < PtyRoom
    /\ todo' = Tail(todo)
    /\ written' = Append(written, Head(todo))
    /\ master' = Append(master, Head(todo))
    /\ UNCHANGED <<child, typed, eof, inputVars, relay, outputVars, returned>>

\* The child reads its input, unless it is itself blocked writing.
ReadKey ==
    /\ child = "alive" /\ keys > 0 /\ Len(master) < PtyRoom
    /\ keys' = keys - 1
    /\ UNCHANGED <<childVars, master, stdin, pending, relay, outputVars, returned>>

Exit ==
    /\ child = "alive"
    /\ child' = "ended"
    /\ UNCHANGED <<todo, written, typed, eof, master, inputVars, relay, outputVars, returned>>

Type ==
    /\ ~eof /\ typed < MaxTyped
    /\ typed' = typed + 1 /\ stdin' = stdin + 1
    /\ UNCHANGED <<child, todo, written, eof, master, keys, pending, relay, outputVars, returned>>

CloseInput ==
    /\ ~eof /\ eof' = TRUE
    /\ UNCHANGED <<child, todo, written, typed, master, inputVars, relay, outputVars, returned>>

(* The relay.  A round handles stdin and then the child's output, whichever *)
(* of them poll() found ready.                                              *)

ReadInput ==
    /\ relay = "polling" /\ stdin > 0
    /\ pending' = Min({stdin, ReadMax})
    /\ stdin' = stdin - pending'
    /\ relay' = "writing"
    /\ UNCHANGED <<childVars, master, keys, outputVars, returned>>

\* The end of stdin ends the relay, whatever the child still prints.
InputEnds ==
    /\ relay = "polling" /\ stdin = 0 /\ eof
    /\ relay' = "stopped"
    /\ UNCHANGED <<childVars, master, inputVars, outputVars, returned>>

\* The write to the child blocks while there is no room for it.  A signal may cut it
\* short, and what it has not written then is lost ...
WriteInput ==
    /\ relay = "writing" /\ child = "alive" /\ keys < PtyRoom
    /\ keys' = keys + 1
    /\ pending' \in {pending - 1, 0}
    /\ relay' = IF pending' = 0 THEN "polling" ELSE "writing"
    /\ UNCHANGED <<childVars, master, stdin, outputVars, returned>>

\* ... and fails when the child is gone, which ends the relay.
WriteFails ==
    /\ relay = "writing" /\ child # "alive"
    /\ relay' = "stopped" /\ pending' = 0
    /\ UNCHANGED <<childVars, master, stdin, keys, outputVars, returned>>

\* Lines that are shown are first looked at for an offer to resume.
Show(text) ==
    /\ screen' = screen \o text
    /\ resume_session_id' = DetectResume(text, resume_session_id)

\* The relay takes data out of the pseudo-terminal: complete lines are shown; with the
\* hang-up flag set, so is the rest, and that was the last read.
ReadOutput(n) ==
    /\ relay = "polling" /\ n <= Min({Len(master), ReadMax})
    /\ \E data \in {utf8_residual \o SubSeq(master, 1, n)} :
       \E text \in {line_buf \o Decoded(data)} :
          /\ utf8_residual' = SubSeq(data, Utf8SafeEnd(data) + 1, Len(data))
          /\ Show(IF child = "alive" THEN LinesOf(text) ELSE text)
          /\ line_buf' = IF child = "alive" THEN RestOf(text) ELSE << >>
    /\ master' = SubSeq(master, n + 1, Len(master))
    /\ relay' = IF child = "alive" THEN relay ELSE "hung up"
    /\ UNCHANGED <<childVars, inputVars, cut, returned>>

\* Mutant: an empty line_buf keeps the loop going.
HangUp_OnlyFlushes ==
    /\ relay = "polling" /\ master = << >> /\ child # "alive" /\ line_buf # << >>
    /\ Show(line_buf)
    /\ line_buf' = << >>
    /\ relay' = "hung up"
    /\ UNCHANGED <<childVars, master, inputVars, utf8_residual, cut, returned>>

HangUp ==
    /\ relay = "polling" /\ master = << >> /\ child # "alive"
    /\ Show(line_buf)
    /\ line_buf' = << >>
    /\ relay' = "hung up"
    /\ UNCHANGED <<childVars, master, inputVars, utf8_residual, cut, returned>>

\* Nothing comes for 50 ms.
Silent ==
    /\ relay = "polling" /\ master = << >> /\ child = "alive" /\ stdin = 0 /\ ~eof
    /\ line_buf # << >>

\* Mutant: the line is kept until it is complete.
Timeout_Keeps == Silent /\ UNCHANGED relayVars

Timeout ==
    /\ Silent
    /\ screen' = screen \o line_buf
    /\ line_buf' = << >>
    /\ cut' = Len(screen')
    /\ UNCHANGED <<childVars, master, inputVars, relay, utf8_residual, resume_session_id, returned>>

\* spawn_with_pty waits for the child, whichever way the relay ended.
Return ==
    /\ relay \in {"hung up", "stopped"} /\ child # "alive" /\ ~returned
    /\ returned' = TRUE
    /\ UNCHANGED <<childVars, master, inputVars, relay, outputVars>>

HandleInput == ReadInput \/ InputEnds \/ WriteInput \/ WriteFails
HandleOutput == (\E n \in 1..ReadMax : ReadOutput(n)) \/ HangUp \/ Timeout \/ Return

RelayNext ==
    \/ Write \/ ReadKey \/ Exit \/ Type \/ CloseInput
    \/ HandleInput \/ HandleOutput

RelaySpec == RelayInit /\ [][RelayNext]_relayVars

\* The relay is a loop that looks at both descriptors in every round.  Nothing is
\* assumed of the child or of the user.
RelayFairSpec == RelaySpec /\ WF_relayVars(HandleInput) /\ WF_relayVars(HandleOutput)
----------------------------------------------------------------------------
(* Properties.                                                             *)

WellFormed == IsUtf8(written \o todo)

\* However the output is cut up by the reads, what the child printed is on the screen
\* or kept for it, in order and complete, unless it is not UTF-8: only what is still
\* in the pseudo-terminal when the relay ends is lost.
OutputAccountedFor ==
    WellFormed => written = screen \o line_buf \o utf8_residual \o master

\* The lines shown since the last one that a timeout cut in two.
Uncut ==
    LET shown == IF relay = "hung up" THEN screen ELSE LinesOf(screen)
        ends  == {j \in DOMAIN shown : j > cut /\ shown[j] = "nl"}
    IN  IF cut = 0 THEN shown
        ELSE IF ends = {} THEN << >>
        ELSE SubSeq(shown, Min(ends) + 1, Len(shown))

\* The session to resume is the one the child named last, also in an unfinished last
\* line, unless the child paused in the middle of a line after that.
ResumeKnown ==
    LET last == Max(Offers(Uncut)) IN
    Offers(Uncut) # {} => resume_session_id = Tail(LineAt(Uncut, last))

\* A large paste can fill what the kernel keeps for the child; the relay then waits for
\* the child to read.
Blocked == relay = "writing" /\ keys = PtyRoom

ScreenBehind == Len(screen) + Len(utf8_residual) < Len(written)

\* What the child prints is shown, with or without a newline (a prompt), while it waits
\* for an answer.
PromptShown ==
    ScreenBehind ~> ~ScreenBehind \/ ~WellFormed \/ Blocked \/ relay \in {"hung up", "stopped"}

\* Once the child has ended, so does the relay, and spawn_with_pty returns.
SessionEnds == child # "alive" ~> returned
=============================================================================
