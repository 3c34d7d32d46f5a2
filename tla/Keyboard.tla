-------------------------------- MODULE Keyboard --------------------------------
(***************************************************************************)
(* The keyboard driver's view of the keyboard (drivers/keyboard.c): which  *)
(* modifier keys it believes to be down, and what a scan code then means.  *)
(*                                                                         *)
(* A key sends its make code when it goes down and its break code when it  *)
(* comes up; a key that is held may send its make code again.  A printed   *)
(* character is the key it is on and which of the key's two characters it  *)
(* is.  The buffers and screens that a meaning acts on belong to the       *)
(* module that extends this one.                                           *)
(***************************************************************************)
EXTENDS Integers

CONSTANTS
  Letters,    \* keys with a small and a capital letter
  Symbols,    \* keys with two symbols
  Chords,     \* sets of modifier keys that this instance holds down together
  Typematic   \* modifier keys that repeat their make code while they are held

Modifiers == {"CAPS_LOCK", "ALT", "CTRL", "SHIFT_L", "SHIFT_R"}

CHAR_L == "CHAR_L"
SPACE == "SPACE"
BACKSLASH == "BACKSLASH"

\* SPACE stands for the keys with one character, BACKSLASH for its own key.
Printing == Letters \cup Symbols \cup {SPACE, BACKSLASH}
Printable == Printing \X BOOLEAN

ASSUME KeyboardAssumption ==
  /\ CHAR_L \in Letters
  /\ {SPACE, BACKSLASH} \cap (Letters \cup Symbols) = {}
  /\ Letters \cap Symbols = {}
  /\ Chords \subseteq SUBSET Modifiers /\ {} \in Chords
  /\ \A c \in Chords : \A k \in c : c \ {k} \in Chords  \* any of them may come up first
  /\ Typematic \subseteq Modifiers

VARIABLES
  caps,            \* what the driver believes: Caps Lock is on,
  ctrl, alt,       \* these keys are down,
  shiftL, shiftR,
  key_stat,        \* and the row of kb_map that follows from it
  held,            \* the modifier keys that are down
  locked           \* Caps Lock has been pressed an odd number of times

driver == <<caps, ctrl, alt, shiftL, shiftR, key_stat>>
keyboard == <<driver, held, locked>>

STATUS_CAPSLOCK == 1
STATUS_SHIFT == 2

KeyboardInit ==
  /\ caps = FALSE /\ ctrl = FALSE /\ alt = FALSE /\ shiftL = FALSE /\ shiftR = FALSE
  /\ key_stat = 0
  /\ held = {}
  /\ locked = FALSE

\* Variant: one Shift coming up ends the shift, whatever the other one does.
update_key_stat_one_shift(k, made) ==
  key_stat' = (IF (k \in {"SHIFT_L", "SHIFT_R"} /\ made)
                    \/ (k \notin {"SHIFT_L", "SHIFT_R"} /\ (shiftL \/ shiftR))
               THEN STATUS_SHIFT ELSE 0)
              + (IF caps' THEN STATUS_CAPSLOCK ELSE 0)

update_key_stat(k, made) ==
  key_stat' = (IF shiftR' \/ shiftL' THEN STATUS_SHIFT ELSE 0)
              + (IF caps' THEN STATUS_CAPSLOCK ELSE 0)

\* keyboard_int on the make or break code of a modifier: Caps Lock toggles on its
\* make code and ignores its break code, the others follow the key.
modifier_code(k, made) ==
  /\ caps' = IF k = "CAPS_LOCK" /\ made THEN ~caps ELSE caps
  /\ alt' = IF k = "ALT" THEN made ELSE alt
  /\ ctrl' = IF k = "CTRL" THEN made ELSE ctrl
  /\ shiftL' = IF k = "SHIFT_L" THEN made ELSE shiftL
  /\ shiftR' = IF k = "SHIFT_R" THEN made ELSE shiftR
  /\ update_key_stat(k, made)

\* A modifier key goes down, repeats, comes up.
KeyDown(k) ==
  /\ k \notin held
  /\ held \cup {k} \in Chords
  /\ held' = held \cup {k}
  /\ locked' = (locked # (k = "CAPS_LOCK"))
  /\ modifier_code(k, TRUE)

KeyRepeat(k) ==
  /\ k \in held \cap Typematic
  /\ modifier_code(k, TRUE)
  /\ UNCHANGED <<held, locked>>

KeyUp(k) ==
  /\ k \in held
  /\ held' = held \ {k}
  /\ modifier_code(k, FALSE)
  /\ UNCHANGED locked

ModifierKey == \E k \in Modifiers : KeyDown(k) \/ KeyRepeat(k) \/ KeyUp(k)

\* The rows of kb_map by the kind of key.  The last row has a plain backslash.
kb_map(stat, k) ==
  <<k, \/ k \in Letters /\ stat \in {STATUS_CAPSLOCK, STATUS_SHIFT}
       \/ k \in Symbols /\ stat \in {STATUS_SHIFT, STATUS_SHIFT + STATUS_CAPSLOCK}
       \/ k = BACKSLASH /\ stat = STATUS_SHIFT>>

get_char_map(k) == kb_map(key_stat, k)

\* What the user means by pressing k: Shift gives the other symbol of a key,
\* and the other case of a letter from the one that Caps Lock chooses.
Meant(k) ==
  LET shift == held \cap {"SHIFT_L", "SHIFT_R"} # {}
  IN  <<k, k # SPACE /\ IF k \in Letters THEN shift # locked ELSE shift>>
=============================================================================
