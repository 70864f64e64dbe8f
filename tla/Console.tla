------------------------------ MODULE Console ------------------------------
(***************************************************************************)
(* The console (kernel/console.c): the ring of input with its indices r, w *)
(* and e, line editing by consoleintr, consoleread with end-of-file and    *)
(* kills, the cursor on the screen, and the echo switch (sys_echoOnOff)    *)
(* that getty and passwd turn around reading a password with gets.         *)
(*                                                                         *)
(* Granularity.  consoleintr handles a byte in one action while nobody     *)
(* holds cons.lock.  consoleread holds it from its first byte to its sleep *)
(* or its return, in one action a byte.  A byte of output is one action    *)
(* under cons.lock; sys_clear, which does not take the lock, has a         *)
(* beginning and an end, and output may come between them.                 *)
(*                                                                         *)
(* Data.  A byte of text is "x"; the bytes with a meaning are the carriage *)
(* return, newline, end-of-file (^D), erase (^H) and kill (^U).  What gets *)
(* reads is not kept: its buffer may be full after any byte.               *)
(***************************************************************************)
EXTENDS Naturals, Sequences, FiniteSets

CONSTANTS
  Proc,          \* the processes with the console open
  INPUT_BUF, MOD,   \* size of the ring; the indices are modulo MOD
  COLS, ROWS,    \* the screen
  Req,           \* sizes of reads
  NoProc

ASSUME SizeAssumption ==
  /\ INPUT_BUF \in Nat \ {0} /\ MOD \in Nat /\ MOD % INPUT_BUF = 0 /\ MOD > INPUT_BUF
  /\ COLS \in Nat \ {0} /\ ROWS \in Nat \ {0, 1} /\ Req \subseteq Nat
  /\ NoProc \notin Proc

VARIABLES
  buf, r, w, e,     \* input
  holder,           \* of cons.lock
  pos,              \* the cursor, when it is known: not while mixed
  clearing,         \* the processes within sys_clear
  mixed,            \* output came between the two ends of the clears under way, or
                    \* of the last ones: the cursor may be anywhere (pos is then 0)
  panicked,
  isPrintable,      \* 1 while the screen shows what is written
  pc,               \* "user" | "read" | "asleep"
  n, target,        \* locals of consoleread
  last,             \* what the last read of a process ended with
  secret,           \* 1 between the two echoOnOff of a password prompt
  killed

inputVars == <<buf, r, w, e>>
screenVars == <<pos, clearing, mixed, panicked>>
vars == <<inputVars, holder, screenVars, isPrintable, pc, n, target, last, secret, killed>>

Init ==
  /\ buf = [i \in 0 .. INPUT_BUF - 1 |-> "x"]
  /\ r = 0 /\ w = 0 /\ e = 0
  /\ holder = NoProc
  /\ pos = 0 /\ clearing = {} /\ mixed = FALSE /\ panicked = FALSE
  /\ isPrintable = 1
  /\ pc = [p \in Proc |-> "user"]
  /\ n = [p \in Proc |-> 0] /\ target = [p \in Proc |-> 0]
  /\ last = [p \in Proc |-> "none"]
  /\ secret = [p \in Proc |-> 0]
  /\ killed = {}

\* A process outside the kernel, or at the start of a byte of its consolewrite.
User(p) == pc[p] = "user" /\ p \notin clearing

Minus(i, j) == (i + MOD - j) % MOD     \* unsigned subtraction

-----------------------------------------------------------------------------
(* Output.                                                                 *)

\* Mutant of Scrolled: the last row is left for the next character to find.
Scrolled_Late(q) == IF q \div COLS >= ROWS THEN q - COLS ELSE q

\* The last row of the screen is never used: the text scrolls up before.
Scrolled(q) == IF q \div COLS >= ROWS - 1 THEN q - COLS ELSE q

\* cgaputc, when the character has moved the cursor to q, and consputc, which calls
\* it unless the echo is off.  cgaputc and sys_clear select a register of the screen
\* and then read or write it: when they mix, a byte goes to or comes from the wrong one.
Show(q) ==
  IF isPrintable = 0 THEN UNCHANGED screenVars
  ELSE /\ IF clearing = {} /\ ~mixed
          THEN pos' = Scrolled(q) /\ panicked' = (q > ROWS * COLS) /\ UNCHANGED mixed
          ELSE pos' = 0 /\ panicked' \in BOOLEAN /\ mixed' = TRUE
       /\ UNCHANGED clearing

\* The cursor behind a character.
Advanced(q, c) ==
  CASE c = "NL" -> q + COLS - (q % COLS)
    [] c = "BS" -> IF q > 0 THEN q - 1 ELSE q
    [] OTHER -> q + 1

Consputc(c) == Show(Advanced(pos, c))

\* consolewrite, a byte of it.
ConsoleWrite(p, c) ==
  /\ User(p) /\ holder = NoProc
  /\ Consputc(c)
  /\ UNCHANGED <<inputVars, holder, isPrintable, pc, n, target, last, secret, killed>>

\* sys_clear moves the cursor home, without cons.lock.
ClearBegin(p) ==
  /\ User(p) /\ p \notin killed
  /\ clearing' = clearing \cup {p}
  /\ mixed' = (mixed /\ clearing # {})
  /\ UNCHANGED <<inputVars, holder, pos, panicked, isPrintable, pc, n, target, last, secret,
                 killed>>

ClearEnd(p) ==
  /\ p \in clearing
  /\ clearing' = clearing \ {p}
  /\ pos' = 0
  /\ UNCHANGED <<inputVars, holder, mixed, panicked, isPrintable, pc, n, target, last, secret,
                 killed>>

-----------------------------------------------------------------------------
(* consoleintr.                                                            *)

\* Mutant of Wakeup: nobody is woken.
Wakeup_Missing == UNCHANGED pc

\* wakeup(&input.r)
Wakeup == pc' = [p \in Proc |-> IF pc[p] = "asleep" THEN "read" ELSE pc[p]]

Full == Minus(e, r) >= INPUT_BUF

\* Both keys that end a line are stored as newline.
Stored(key) == IF key = "CR" THEN "NL" ELSE key

\* Mutant of Finishes: a full ring does not count.
Finishes_NotFull(c, e1) == c \in {"NL", "EOF"}

Finishes(c, e1) == c \in {"NL", "EOF"} \/ Minus(e1, r) = INPUT_BUF

\* A byte is stored and shown; the line is finished by newline, ^D or a full ring.
Type(key) ==
  LET c == Stored(key)
      e1 == (e + 1) % MOD
  IN
  /\ holder = NoProc /\ ~Full
  /\ buf' = [buf EXCEPT ![e % INPUT_BUF] = c]
  /\ e' = e1
  /\ Consputc(c)
  /\ IF Finishes(c, e1)
     THEN w' = e1 /\ Wakeup
     ELSE UNCHANGED <<w, pc>>
  /\ UNCHANGED <<r, holder, isPrintable, n, target, last, secret, killed>>

\* ^H
Erase ==
  /\ holder = NoProc /\ e # w
  /\ e' = Minus(e, 1)
  /\ Consputc("BS")
  /\ UNCHANGED <<buf, r, w, holder, isPrintable, pc, n, target, last, secret, killed>>

\* ^U is ^H for every byte back to w or to a newline: the number of these bytes.
Killed ==
  LET newline(k) == buf[Minus(e, k + 1) % INPUT_BUF] = "NL"
  IN CHOOSE k \in 0 .. Minus(e, w) :
       /\ k = Minus(e, w) \/ newline(k)
       /\ \A j \in 0 .. k - 1 : ~newline(j)

\* The cursor after k backspaces.
Back(q, k) == IF q > k THEN q - k ELSE 0

KillLine ==
  /\ holder = NoProc
  /\ e' = Minus(e, Killed)
  /\ IF Killed = 0 THEN UNCHANGED screenVars ELSE Show(Back(pos, Killed))
  /\ UNCHANGED <<buf, r, w, holder, isPrintable, pc, n, target, last, secret, killed>>

-----------------------------------------------------------------------------
(* consoleread.                                                            *)

Read(p, k) ==
  /\ User(p) /\ p \notin killed
  /\ n' = [n EXCEPT ![p] = k] /\ target' = [target EXCEPT ![p] = k]
  /\ last' = [last EXCEPT ![p] = "none"]
  /\ pc' = [pc EXCEPT ![p] = "read"]
  /\ UNCHANGED <<inputVars, holder, screenVars, isPrintable, secret, killed>>

Turn(p) == pc[p] = "read" /\ holder \in {NoProc, p}

Return(p, res) ==
  /\ pc' = [pc EXCEPT ![p] = "user"]
  /\ n' = [n EXCEPT ![p] = 0] /\ target' = [target EXCEPT ![p] = 0]
  /\ last' = [last EXCEPT ![p] = res]
  /\ holder' = NoProc

\* Nothing to read: -1 for a killed process, sleep for another.
ReadWait(p) ==
  /\ Turn(p) /\ n[p] > 0 /\ r = w
  /\ IF p \in killed THEN Return(p, "error")
     ELSE /\ pc' = [pc EXCEPT ![p] = "asleep"]
          /\ holder' = NoProc
          /\ UNCHANGED <<n, target, last>>
  /\ UNCHANGED <<inputVars, screenVars, isPrintable, secret, killed>>

\* A byte is taken.  ^D ends the read; after other bytes it stays for the next one.
ReadByte(p) ==
  LET c == buf[r % INPUT_BUF]
      keep == c = "EOF" /\ n[p] < target[p]
  IN
  /\ Turn(p) /\ n[p] > 0 /\ r # w
  /\ r' = IF keep THEN r ELSE (r + 1) % MOD
  /\ IF c = "EOF" THEN Return(p, IF keep THEN "bytes" ELSE "EOF")
     ELSE IF c = "NL" THEN Return(p, "NL")
     ELSE IF n[p] = 1 THEN Return(p, "bytes")
     ELSE /\ n' = [n EXCEPT ![p] = @ - 1]
          /\ holder' = p
          /\ UNCHANGED <<pc, target, last>>
  /\ UNCHANGED <<buf, w, e, screenVars, isPrintable, secret, killed>>

\* A read of 0 bytes.
ReadNone(p) ==
  /\ Turn(p) /\ n[p] = 0
  /\ Return(p, "none")
  /\ UNCHANGED <<inputVars, screenVars, isPrintable, secret, killed>>

\* kill sets the flag and wakes a sleeper.
Kill(p) ==
  /\ p \notin killed
  /\ killed' = killed \cup {p}
  /\ pc' = [pc EXCEPT ![p] = IF @ = "asleep" THEN "read" ELSE @]
  /\ UNCHANGED <<inputVars, holder, screenVars, isPrintable, n, target, last, secret>>

\* A killed process exits when it enters or leaves the kernel, in a password prompt
\* too: the echo stays off.  Another process takes its place.
Exit(p) ==
  /\ User(p) /\ p \in killed
  /\ killed' = killed \ {p}
  /\ secret' = [secret EXCEPT ![p] = 0]
  /\ UNCHANGED <<inputVars, holder, screenVars, isPrintable, pc, n, target, last>>

-----------------------------------------------------------------------------
(* getty and passwd: echoOnOff, gets, echoOnOff.                           *)

\* sys_echoOnOff switches to the opposite state.
EchoOnOff == isPrintable' = 1 - isPrintable

PromptOff(p) ==
  /\ User(p) /\ p \notin killed /\ secret[p] = 0
  /\ EchoOnOff
  /\ secret' = [secret EXCEPT ![p] = 1]
  /\ last' = [last EXCEPT ![p] = "none"]
  /\ UNCHANGED <<inputVars, holder, screenVars, pc, n, target, killed>>

\* gets reads byte by byte up to a newline, the end of the input or its buffer.
Gets(p) == secret[p] = 1 /\ last[p] \in {"none", "bytes"} /\ Read(p, 1)

PromptOn(p) ==
  /\ User(p) /\ p \notin killed /\ secret[p] = 1 /\ last[p] # "none"
  /\ EchoOnOff
  /\ secret' = [secret EXCEPT ![p] = 0]
  /\ UNCHANGED <<inputVars, holder, screenVars, pc, n, target, last, killed>>

-----------------------------------------------------------------------------
Step(p) == ReadWait(p) \/ ReadByte(p) \/ ReadNone(p)

Keyboard == (\E key \in {"x", "CR", "EOF"} : Type(key)) \/ Erase \/ KillLine

Call(p) ==
  \/ \E k \in Req : secret[p] = 0 /\ Read(p, k)
  \/ Step(p) \/ Kill(p) \/ Exit(p)
  \/ \E c \in {"x", "NL"} : ConsoleWrite(p, c)
  \/ ClearBegin(p) \/ ClearEnd(p)
  \/ PromptOff(p) \/ Gets(p) \/ PromptOn(p)

\* A kernel that has panicked stays as it is.
Frozen == panicked /\ UNCHANGED vars

Next ==
  \/ ~panicked /\ Keyboard
  \/ ~panicked /\ \E p \in Proc : Call(p)
  \/ Frozen

Spec == Init /\ [][Next]_vars

-----------------------------------------------------------------------------
(* Properties.                                                             *)

\* Whatever is typed, erased, written or cleared, the cursor is above the last row of
\* the screen, and cgaputc's panic "pos under/overflow" is not reached, unless output
\* came within a clear: then until a clear in which it does not.
CursorOnScreen ==
  /\ clearing = {} /\ ~mixed => pos < (ROWS - 1) * COLS
  /\ panicked => mixed

\* A reader sleeps only while no finished line is waiting: a wakeup is never missed,
\* and a ^D that a read put back does not wait for a sleeper.
NoSleepInVain == \A p \in Proc : pc[p] = "asleep" => r = w

\* The ring with its wrapping indices implements an edited line and a queue of bytes.
Slice(i, k) == [j \in 1 .. k |-> buf[(i + j - 1) % INPUT_BUF]]

T == INSTANCE Tty WITH Room <- INPUT_BUF, edit <- Slice(w, Minus(e, w)), done <- Slice(r, Minus(w, r))

ImplementsTty == T!Spec
=============================================================================
