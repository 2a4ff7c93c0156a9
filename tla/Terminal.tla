------------------------------- MODULE Terminal -------------------------------
(***************************************************************************)
(* Class Terminal (src/src/terminal): the settings of the local terminal   *)
(* and the object that changes them for the interactive shell.  A termios  *)
(* value is abstracted to its name.                                        *)
(***************************************************************************)
EXTENDS Integers

VARIABLES
    tty,                \* settings the terminal device has
    original_settings,  \* settings the object saved; "none" until it does
    raw_mode_active     \* Terminal::raw_mode_active_

terminalVars == <<tty, original_settings, raw_mode_active>>

\* "hidden": echo is off while a password is typed.
TtySettings == {"cooked", "hidden", "raw"}

TerminalTypeOK ==
    /\ tty \in TtySettings
    /\ original_settings \in TtySettings \cup {"none"}
    /\ raw_mode_active \in BOOLEAN
    /\ raw_mode_active => original_settings # "none"

TerminalInit ==
    /\ tty = "cooked"
    /\ original_settings = "none"
    /\ raw_mode_active = FALSE

(***************************************************************************)
(* read_hidden_input: it saves the settings in a local variable, not in    *)
(* the object, and puts them back on every path that leaves it by return   *)
(* or exception.  Its second tcsetattr is taken to succeed.                *)
(***************************************************************************)
HideInput == tty' = "hidden" /\ UNCHANGED <<original_settings, raw_mode_active>>

\* Mutants: the settings come from the object, or are not put back.
ShowInput_FromObject(before) ==
    tty' = original_settings /\ UNCHANGED <<original_settings, raw_mode_active>>

ShowInput_Forgotten(before) == UNCHANGED terminalVars

ShowInput(before) ==
    tty' = before /\ UNCHANGED <<original_settings, raw_mode_active>>

(***************************************************************************)
(* What getenv("TERM") and TIOCGWINSZ may give: a variable that is unset   *)
(* or empty, an ioctl that fails (ok = FALSE), a size with a zero in it.   *)
(***************************************************************************)
TermValue == {"", "vt100"}

WindowSize == [ok : BOOLEAN, ws_col : {0, 132}, ws_row : {0, 43}]

get_terminal_info(term_value, dimensions) ==
    LET known == dimensions.ok /\ dimensions.ws_col # 0 /\ dimensions.ws_row # 0
    IN  [type    |-> IF term_value = "" THEN "xterm-256color" ELSE term_value,
         columns |-> IF known THEN dimensions.ws_col ELSE 80,
         rows    |-> IF known THEN dimensions.ws_row ELSE 24]

TerminalInfos ==
    {get_terminal_info(t, d) : t \in TermValue, d \in WindowSize}

(***************************************************************************)
(* The outcomes of enable_raw_mode and restore that do not throw.  When    *)
(* they throw they change neither tty nor raw_mode_active.                 *)
(***************************************************************************)
\* Mutant: the settings are not saved.
enable_raw_mode_NotSaved ==
    /\ tty' = "raw"
    /\ raw_mode_active' = TRUE
    /\ UNCHANGED original_settings

enable_raw_mode ==
    \/ raw_mode_active /\ UNCHANGED terminalVars
    \/ /\ ~raw_mode_active
       /\ original_settings' = tty
       /\ tty' = "raw"
       /\ raw_mode_active' = TRUE

restore ==
    \/ ~raw_mode_active /\ UNCHANGED terminalVars
    \/ /\ raw_mode_active
       /\ tty' = original_settings
       /\ raw_mode_active' = FALSE
       /\ UNCHANGED original_settings

(***************************************************************************)
(* ~Terminal, run when the stack is unwound.  Its tcsetattr is taken to    *)
(* succeed; afterwards the object is gone.                                 *)
(***************************************************************************)
\* Mutant: the default destructor.
DestroyTerminal_Default ==
    /\ raw_mode_active' = FALSE
    /\ UNCHANGED <<tty, original_settings>>

DestroyTerminal ==
    /\ tty' = IF raw_mode_active THEN original_settings ELSE tty
    /\ raw_mode_active' = FALSE
    /\ UNCHANGED original_settings

===============================================================================
