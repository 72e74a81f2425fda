---------------------------- MODULE MCSentinel ----------------------------
(* The sentinel with the combos that the small instances configure. *)
EXTENDS Sentinel

OneCombo == {<<"LCONTROL", "U">>}

\* A short one and a longer one, which SET_COMBO cuts off after three codes; CTRL and
\* LCTRL are names of one code, so that the longer one has it twice.
TwoCombos == {<<"ESC", "LCONTROL">>, <<"LCONTROL", "LCONTROL", "ESC", "U">>}
=============================================================================
