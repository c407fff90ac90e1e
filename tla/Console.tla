------------------------------ MODULE Console ------------------------------
(***************************************************************************)
(* The text console of src/kernel/console.c, which nothing locks, and the  *)
(* threads that print.  A thread may be preempted between any two          *)
(* statements of console_putchar and console_scroll.                       *)
(*                                                                         *)
(* VGA_MEMORY goes on behind the screen: a cell there is off the screen,   *)
(* further on there is other memory.  Colours and the cursor are left out. *)
(***************************************************************************)
EXTENDS Integers, Sequences

CONSTANTS
  Threads,
  Unlocked,     \* those that print without holding sem, like thread_entry
  VGA_WIDTH, VGA_HEIGHT,
  Chars,        \* characters that are neither a blank nor a newline
  MaxPrinted,   \* bound on the characters printed
  NOBODY

ASSUME ConsoleAssumption ==
  /\ Unlocked \subseteq Threads /\ NOBODY \notin Threads
  /\ VGA_WIDTH \in Nat \ {0} /\ VGA_HEIGHT \in Nat \ {0, 1}
  /\ MaxPrinted \in Nat /\ {" ", "newline"} \cap Chars = {}

VARIABLES
  console_row, console_column,
  VGA_MEMORY,
  sem,          \* who holds the semaphore around printf, or NOBODY
  pc, char,     \* of each thread: where it is, and the character it prints
  i,            \* of each thread: console_scroll's i
  printed       \* history: the characters in the order they were begun

vars == <<console_row, console_column, VGA_MEMORY, sem, pc, char, i, printed>>

Screen == 0..(VGA_WIDTH * VGA_HEIGHT - 1)
Cells == 0..(VGA_WIDTH * (VGA_HEIGHT + MaxPrinted) - 1)

TypeOK ==
  /\ console_row \in Nat /\ console_column \in Nat
  /\ VGA_MEMORY \in [Cells -> Chars \cup {" "}]
  /\ sem \in Threads \cup {NOBODY}
  /\ pc \in [Threads -> {"out", "in", "entry", "column", "wrap", "row", "check", "scroll", "back"}]
  /\ char \in [Threads -> Chars \cup {"newline"}]
  /\ i \in [Threads -> 0..(VGA_WIDTH * VGA_HEIGHT)]
  /\ printed \in Seq(Chars \cup {"newline"})

\* console_init.
Init ==
  /\ console_row = 0 /\ console_column = 0
  /\ VGA_MEMORY = [c \in Cells |-> " "]
  /\ sem = NOBODY
  /\ pc = [t \in Threads |-> "out"] /\ char = [t \in Threads |-> "newline"]
  /\ i = [t \in Threads |-> 0]
  /\ printed = <<>>

Goto(t, label) == pc' = [pc EXCEPT ![t] = label]
-----------------------------------------------------------------------------
\* printf, under sem as in thread1 to thread3, or bare.
printf(t) ==
  /\ pc[t] = "out" /\ Goto(t, "in")
  /\ IF t \in Unlocked THEN UNCHANGED sem ELSE sem = NOBODY /\ sem' = t
  /\ UNCHANGED <<console_row, console_column, VGA_MEMORY, char, i, printed>>

printf_return(t) ==
  /\ pc[t] = "in" /\ Goto(t, "out")
  /\ sem' = IF sem = t THEN NOBODY ELSE sem
  /\ UNCHANGED <<console_row, console_column, VGA_MEMORY, char, i, printed>>

\* console_putchar of the next character.
console_putchar(t, c) ==
  /\ pc[t] = "in" /\ Len(printed) < MaxPrinted                \* bound
  /\ char' = [char EXCEPT ![t] = c]
  /\ printed' = Append(printed, c)
  /\ Goto(t, IF c = "newline" THEN "wrap" ELSE "entry")
  /\ UNCHANGED <<console_row, console_column, VGA_MEMORY, sem, i>>

console_putentryat(t) ==
  /\ pc[t] = "entry" /\ Goto(t, "column")
  /\ VGA_MEMORY' = [VGA_MEMORY EXCEPT ![console_row * VGA_WIDTH + console_column] = char[t]]
  /\ UNCHANGED <<console_row, console_column, sem, char, i, printed>>

next_column(t) ==
  /\ pc[t] = "column"
  /\ console_column' = console_column + 1
  /\ Goto(t, IF console_column + 1 = VGA_WIDTH THEN "wrap" ELSE "check")
  /\ UNCHANGED <<console_row, VGA_MEMORY, sem, char, i, printed>>

wrap(t) ==
  /\ pc[t] = "wrap" /\ Goto(t, "row")
  /\ console_column' = 0
  /\ UNCHANGED <<console_row, VGA_MEMORY, sem, char, i, printed>>

next_row(t) ==
  /\ pc[t] = "row" /\ Goto(t, "check")
  /\ console_row' = console_row + 1
  /\ UNCHANGED <<console_column, VGA_MEMORY, sem, char, i, printed>>

check(t) ==
  /\ pc[t] = "check"
  /\ IF console_row = VGA_HEIGHT
       THEN Goto(t, "scroll") /\ i' = [i EXCEPT ![t] = 0]
       ELSE Goto(t, "in") /\ UNCHANGED i
  /\ UNCHANGED <<console_row, console_column, VGA_MEMORY, sem, char, printed>>

\* A turn of console_scroll's loops: move a cell one row up, or clear one of the last row.
console_scroll_keep(t) ==                                     \* mutant
  /\ pc[t] = "scroll"
  /\ IF i[t] = VGA_WIDTH * (VGA_HEIGHT - 1)
       THEN Goto(t, "back") /\ UNCHANGED <<VGA_MEMORY, i>>
       ELSE /\ VGA_MEMORY' = [VGA_MEMORY EXCEPT ![i[t]] = VGA_MEMORY[i[t] + VGA_WIDTH]]
            /\ i' = [i EXCEPT ![t] = @ + 1]
            /\ UNCHANGED pc
  /\ UNCHANGED <<console_row, console_column, sem, char, printed>>
console_scroll(t) ==
  /\ pc[t] = "scroll"
  /\ IF i[t] = VGA_WIDTH * VGA_HEIGHT
       THEN Goto(t, "back") /\ UNCHANGED <<VGA_MEMORY, i>>
       ELSE /\ VGA_MEMORY' = [VGA_MEMORY EXCEPT ![i[t]] =
                 IF i[t] < VGA_WIDTH * (VGA_HEIGHT - 1) THEN VGA_MEMORY[i[t] + VGA_WIDTH] ELSE " "]
            /\ i' = [i EXCEPT ![t] = @ + 1]
            /\ UNCHANGED pc
  /\ UNCHANGED <<console_row, console_column, sem, char, printed>>

row_back(t) ==
  /\ pc[t] = "back" /\ Goto(t, "in")
  /\ console_row' = console_row - 1
  /\ UNCHANGED <<console_column, VGA_MEMORY, sem, char, i, printed>>

Next ==
  \E t \in Threads :
    \/ printf(t)
    \/ printf_return(t)
    \/ \E c \in Chars \cup {"newline"} : console_putchar(t, c)
    \/ console_putentryat(t)
    \/ next_column(t)
    \/ wrap(t)
    \/ next_row(t)
    \/ check(t)
    \/ console_scroll(t)
    \/ row_back(t)

Spec == Init /\ [][Next]_vars
-----------------------------------------------------------------------------
(***************************************************************************)
(* What a terminal shows: the text broken into lines, and the last         *)
(* VGA_HEIGHT of these.                                                    *)
(***************************************************************************)
\* Line and column where the next character goes after n characters.
Position ==
  [n \in 0..Len(printed) |-> LET P[m \in 0..n] ==
     IF m = 0 THEN <<0, 0>>
     ELSE IF printed[m] = "newline" \/ P[m - 1][2] + 1 = VGA_WIDTH THEN <<P[m - 1][1] + 1, 0>>
     ELSE <<P[m - 1][1], P[m - 1][2] + 1>>
   IN P[n]]

Shown(c) ==
  LET end == Position[Len(printed)][1]
      top == IF end < VGA_HEIGHT THEN 0 ELSE end - VGA_HEIGHT + 1
      here == {n \in 1..Len(printed) : printed[n] # "newline" /\
                Position[n - 1] = <<top + c \div VGA_WIDTH, c % VGA_WIDTH>>}
  IN  IF here = {} THEN " " ELSE printed[CHOOSE n \in here : TRUE]

Quiet == \A t \in Threads : pc[t] \in {"out", "in"}

\* console.c:70: when no character is being printed, the screen shows the last lines
\* of what was printed, whoever printed it.
ShowsText == Quiet => \A c \in Screen : VGA_MEMORY[c] = Shown(c)

\* console.c:87: once the characters being printed are done the row is on the screen,
\* also with threads that print under no lock.
RowComesBack == Quiet => console_row < VGA_HEIGHT
=============================================================================
