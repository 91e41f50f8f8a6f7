-------------------------- MODULE CrusaderKeyboard --------------------------
(***************************************************************************)
(* The keyboard of bioskbd.c: the user's fingers, the keyboard with its    *)
(* controller (external: scan code set 1, a buffer of a few codes), and    *)
(* the decoder bios_getchar_nonblocking, which reads one code a call.      *)
(***************************************************************************)
EXTENDS Naturals, Sequences, FiniteSets

CONSTANTS
  map_lower, map_upper,  \* from keys to characters; a navigation key has the
                         \* code, and here the character, of a key of the keypad
  Fifo,                  \* codes the keyboard can hold back
  NoChar                 \* the 0 of the two tables

ShiftKeys == {"LShift", "RShift"}                       \* 0x2A, 0x36
NavKey    == "Nav"                                      \* an arrow, Home, Delete...
Keys      == DOMAIN map_lower \cup ShiftKeys

ASSUME KeyboardAssumption ==
  /\ NavKey \in DOMAIN map_lower /\ DOMAIN map_upper = DOMAIN map_lower
  /\ "E0" \notin DOMAIN map_lower /\ NoChar \notin {"nl", "bs"}
  /\ Fifo \in Nat

\* A key goes down or up; the keyboard sends the same, and the prefix 0xE0.
Strikes == [key : Keys, up : BOOLEAN]
E0      == [key |-> "E0", up |-> FALSE]
Codes   == Strikes \cup {E0}

Down(k) == [key |-> k, up |-> FALSE]
Up(k)   == [key |-> k, up |-> TRUE]

VARIABLES
  held,           \* the shift keys the user holds
  codes,          \* sent and not yet read
  shift_pressed,
  is_extended,
  missed          \* ghost: something happened that this decoder does not survive

kbdVars == <<held, codes, shift_pressed, is_extended, missed>>

KbdTypeOK ==
  /\ held \subseteq ShiftKeys
  /\ codes \in Seq(Codes) /\ Len(codes) <= Fifo
  /\ shift_pressed \in BOOLEAN /\ is_extended \in BOOLEAN /\ missed \in BOOLEAN

KbdInit ==
  /\ held = {} /\ codes = << >>
  /\ shift_pressed = FALSE /\ is_extended = FALSE /\ missed = FALSE

\* What the keyboard sends.  For a navigation key it takes a held shift back and
\* gives it again afterwards, each with a prefix.
Sends(s) ==
  IF s.key # NavKey THEN <<s>>
  ELSE CASE held = {} -> <<E0, s>>
         [] held # {} /\ ~s.up -> <<E0, Up(CHOOSE k \in held : TRUE), E0, s>>
         [] held # {} /\ s.up  -> <<E0, s, E0, Down(CHOOSE k \in held : TRUE)>>

\* A strike; codes for which there is no room are lost.  The three things the
\* decoder does not survive: a lost code, a second shift, whose release cancels
\* the first, and a navigation key under shift, which leaves is_extended set.
\* No shift goes up that is not down.
Strike(s) ==
  LET sent == codes \o Sends(s) IN
  /\ s.key \in ShiftKeys /\ s.up => s.key \in held
  /\ held' = IF s.key \notin ShiftKeys THEN held
             ELSE IF s.up THEN held \ {s.key} ELSE held \cup {s.key}
  /\ codes' = IF Len(sent) > Fifo THEN SubSeq(sent, 1, Fifo) ELSE sent
  /\ missed' = \/ missed
               \/ Len(sent) > Fifo
               \/ Cardinality(held') > 1
               \/ s.key = NavKey /\ held # {}
  /\ UNCHANGED <<shift_pressed, is_extended>>

\* The character the user means.
Meant(s) ==
  IF s.up \/ s.key \in ShiftKeys \cup {NavKey} THEN NoChar
  ELSE IF held # {} THEN map_upper[s.key] ELSE map_lower[s.key]

\* Mutant: the prefix is not looked at.
DecodedMutant(c) ==
  IF c = E0 \/ c.up \/ c.key \in ShiftKeys
    THEN NoChar
    ELSE IF shift_pressed THEN map_upper[c.key] ELSE map_lower[c.key]

\* The character of a code: none for a release, a shift, a prefix, and for the
\* code after a prefix.
Decoded(c) ==
  IF c = E0 \/ c.up \/ c.key \in ShiftKeys \/ is_extended
    THEN NoChar
    ELSE IF shift_pressed THEN map_upper[c.key] ELSE map_lower[c.key]

\* bios_has_char and bios_getchar_nonblocking: both shifts set one flag; a shift
\* returns before is_extended is looked at, every other code clears it.
ReadCode ==
  LET c == Head(codes) IN
  /\ codes # << >> /\ codes' = Tail(codes)
  /\ shift_pressed' = IF c.key \in ShiftKeys THEN ~c.up ELSE shift_pressed
  /\ is_extended' = CASE c = E0 -> TRUE
                      [] c.key \in ShiftKeys -> is_extended
                      [] OTHER -> FALSE
  /\ UNCHANGED <<held, missed>>

\* The machine is reset: the flags and the codes go, the fingers stay.
KbdReset ==
  /\ codes' = << >> /\ shift_pressed' = FALSE /\ is_extended' = FALSE
  /\ missed' = (missed \/ held # {} \/ codes # << >>)
  /\ UNCHANGED held

=============================================================================
