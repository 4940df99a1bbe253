------------------------------- MODULE Keyboard -------------------------------
(***************************************************************************)
(* The keyboard driver, devices/kbd.c: scancodes become characters, in the *)
(* light of the shift keys that are down.  Characters are ASCII codes.     *)
(* What becomes of a character in the input buffer is Terminal's matter.   *)
(***************************************************************************)
EXTENDS Integers, Sequences

CONSTANTS NoKey, Reboot

VARIABLES
  state_var,    \* left_shift, right_shift ...: by the scancode of the key
  caps_lock,
  input,        \* the character of the last key, NoKey or Reboot
  held,         \* the shift keys that are down, as scancodes
  last          \* the key of the last interrupt, if it was pressed

keyboardVars == <<state_var, caps_lock, input, held, last>>

\* The keymaps: characters of keys with consecutive scancodes.
Keys(first, chars) == [first |-> first, chars |-> chars]

invariant_keymap ==
  {Keys(1, <<27>>), Keys(14, <<8>>),
   Keys(15, <<9, 81, 87, 69, 82, 84, 89, 85, 73, 79, 80>>),     \* \tQWERTYUIOP
   Keys(28, <<13>>), Keys(30, <<65, 83, 68, 70, 71, 72, 74, 75, 76>>),
   Keys(44, <<90, 88, 67, 86, 66, 78, 77>>),
   Keys(55, <<42>>), Keys(57, <<32>>), Keys(83, <<127>>)}
unshifted_keymap ==
  {Keys(2, <<49, 50, 51, 52, 53, 54, 55, 56, 57, 48, 45, 61>>), \* 1234567890-=
   Keys(26, <<91, 93>>), Keys(39, <<59, 39, 96>>), Keys(43, <<92>>), Keys(51, <<44, 46, 47>>)}
shifted_keymap ==
  {Keys(2, <<33, 64, 35, 36, 37, 94, 38, 42, 40, 41, 95, 43>>), \* !@#$%^&*()_+
   Keys(26, <<123, 125>>), Keys(39, <<58, 34, 126>>), Keys(43, <<124>>), Keys(51, <<60, 62, 63>>)}

Codes(k) == k.first .. k.first + Len(k.chars) - 1
Mapped(keymap, code) == \E k \in keymap : code \in Codes(k)
map_key(keymap, code) ==
  LET k == CHOOSE k \in keymap : code \in Codes(k) IN k.chars[code - k.first + 1]

\* Shift keys; the right Alt and Ctrl keys send the prefix e0 before their code.
Prefixed(code) == 224 * 256 + code
shift_keys == [shift |-> {42, 54}, alt |-> {56, Prefixed(56)}, ctrl |-> {29, Prefixed(29)}]
ShiftKey == shift_keys.shift \cup shift_keys.alt \cup shift_keys.ctrl
CapsLock == 58

Down(modifier) == \E k \in shift_keys[modifier] : state_var[k]

KeyboardInit ==
  /\ state_var = [k \in ShiftKey |-> FALSE]
  /\ caps_lock = FALSE
  /\ input = NoKey
  /\ held = {}
  /\ last = NoKey

-------------------------------------------------------------------------------
\* Bit 0x80 of the last byte tells a release.
IsRelease(code) == (code % 256) \div 128 = 1
KeyOf(code) == IF IsRelease(code) THEN code - 128 ELSE code

tolower(c) == IF c \in 65 .. 90 THEN c + 32 ELSE c

\* Mutant: Ctrl takes 0x40 from every character.
Cooked_ctrl(c) ==
  LET cased == IF Down("ctrl") THEN c - 64
               ELSE IF Down("shift") = caps_lock THEN tolower(c) ELSE c
  IN IF Down("alt") THEN cased + 128 ELSE cased

Cooked(c) ==
  LET cased == IF Down("ctrl") /\ c \in 64 .. 95 THEN c - 64
               ELSE IF Down("shift") = caps_lock THEN tolower(c) ELSE c
  IN IF Down("alt") THEN cased + 128 ELSE cased

KeymapsNow == invariant_keymap \cup (IF Down("shift") THEN shifted_keymap ELSE unshifted_keymap)

keyboard_interrupt(code) ==
  LET key == KeyOf(code)
      release == IsRelease(code)
      c == map_key(KeymapsNow, key)
  IN CASE key = CapsLock ->
            /\ caps_lock' = (IF release THEN caps_lock ELSE ~caps_lock)
            /\ input' = NoKey
            /\ UNCHANGED state_var
       [] key # CapsLock /\ Mapped(KeymapsNow, key) ->
            /\ input' = IF release THEN NoKey
                        ELSE IF c = 127 /\ Down("ctrl") /\ Down("alt") THEN Reboot
                        ELSE Cooked(c)
            /\ UNCHANGED <<state_var, caps_lock>>
       [] OTHER ->
            /\ state_var' = [k \in ShiftKey |-> IF k = key THEN ~release ELSE state_var[k]]
            /\ input' = NoKey
            /\ UNCHANGED caps_lock

\* The keys of the keyboard, among them one that the driver does not know.
Ordinary == UNION {Codes(k) : k \in invariant_keymap \cup unshifted_keymap}
AnyKey == Ordinary \cup ShiftKey \cup {CapsLock, Prefixed(83)}

\* A key is pressed, or repeats while it is down; a key is released.
Press(key) ==
  /\ keyboard_interrupt(key)
  /\ held' = IF key \in ShiftKey THEN held \cup {key} ELSE held
  /\ last' = key

Release(key) ==
  /\ key \in ShiftKey => key \in held
  /\ keyboard_interrupt(key + 128)
  /\ held' = held \ {key}
  /\ last' = NoKey

KeyboardNext == input # Reboot /\ \E key \in AnyKey : Press(key) \/ Release(key)

-------------------------------------------------------------------------------
IsLetter(key) == Mapped(invariant_keymap, key) /\ map_key(invariant_keymap, key) \in 65 .. 90
Holds(modifier) == held \cap shift_keys[modifier] # {}

(***************************************************************************)
(* What a key gives depends on the keys that are held with it, each side   *)
(* of the keyboard on its own, however keys were pressed, repeated and     *)
(* released before: a letter is a capital when Shift or Caps Lock is on    *)
(* but not both, a control character with Ctrl; Shift alone chooses among  *)
(* the other keys' characters; with Alt, and only then, the high bit is    *)
(* set; Ctrl, Alt and Delete restart the machine.                          *)
(***************************************************************************)
KeysAsHeld ==
  /\ \A k \in ShiftKey : state_var[k] <=> k \in held
  /\ input = Reboot <=> last = 83 /\ Holds("ctrl") /\ Holds("alt")
  /\ input \notin {NoKey, Reboot} =>
       /\ input >= 128 <=> Holds("alt")
       /\ LET c == input % 128
              plain == map_key(invariant_keymap \cup
                                 (IF Holds("shift") THEN shifted_keymap ELSE unshifted_keymap), last)
          IN IF IsLetter(last)
             THEN IF Holds("ctrl") THEN c \in 1 .. 26
                  ELSE c \in 65 .. 90 <=> (Holds("shift") # caps_lock)
             ELSE c = IF Holds("ctrl") /\ plain \in {64, 91, 92, 93, 94, 95} THEN plain - 64
                      ELSE plain
===============================================================================
