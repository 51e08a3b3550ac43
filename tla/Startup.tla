------------------------------ MODULE Startup ------------------------------
(***************************************************************************)
(* What main does before it serves (src/main.rs, src/config.rs), up to the *)
(* effects, which are actions of Lifecycle: the command line, the refusal  *)
(* to run as root, and opening, reading and validating the file.           *)
(***************************************************************************)
EXTENDS Config

(***************************************************************************)
(* parse_args.  An argument is "help", "version", "--config", "--config="  *)
(* without a value, "--config=path", or some other word.  After "--config" *)
(* the next argument is the value, whatever it is.                         *)
(***************************************************************************)
Scan(state, arg) ==
    CASE state = "value" -> "options"
      [] state = "options" /\ arg = "help" -> "Help"
      [] state = "options" /\ arg = "version" -> "Version"
      [] state = "options" /\ arg = "--config" -> "value"
      [] state = "options" /\ arg = "--config=path" -> "options"
      [] state = "options" /\ arg = "--config=" -> "MissingValue"
      [] state = "options" /\ arg = "word" -> "UnknownOption"
      [] OTHER -> state

parse_args(args) ==
    LET scanned[i \in 0..Len(args)] ==
            IF i = 0 THEN "options" ELSE Scan(scanned[i - 1], args[i])
        end == scanned[Len(args)]
    IN
    CASE end = "options" -> "path"
      [] end = "value" -> "MissingValue"
      [] OTHER -> end

secure_config_metadata(file, euid) ==
    file.kind = "regular" /\ file.mode = "0600" /\ file.owner = euid

\* O_NOFOLLOW: a link is not opened.  What was opened is checked, then read.
open_config(file, euid) ==
    IF file.kind \in {"missing", "link"} THEN "Io"
    ELSE IF ~secure_config_metadata(file, euid) THEN "Permission"
    ELSE "ok"

\* What is no YAML has no raw configuration.
load(file, euid) ==
    IF open_config(file, euid) # "ok" THEN open_config(file, euid)
    ELSE IF ~file.parses THEN "Parse"
    ELSE IF ~(DOMAIN file.raw \subseteq RawFields) THEN "Parse"
    ELSE IF ~Valid(file.raw) THEN "Validation"
    ELSE "ok"

reject_root_for(euid) == euid = "root"

load_config(file, euid) == IF reject_root_for(euid) THEN "Root" ELSE load(file, euid)
=============================================================================
