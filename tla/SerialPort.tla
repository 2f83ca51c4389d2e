----------------------------- MODULE SerialPort -----------------------------
(***************************************************************************)
(* The settings of a serial port (termios) and what the drivers do to them *)
(* (server/drv_serial.cpp and the derived drivers, server/drv_serial_*.h). *)
(* A driver changes the settings that its options name and leaves the      *)
(* others as the last user of the port has left them.                      *)
(*                                                                         *)
(* The options of a driver are a function from names to values.  A setting *)
(* that an option of the same name switches on and off is a flag.  Baud    *)
(* rates, character sizes, delays and hardware handshake only have to fit  *)
(* the instrument and are left out, and so are flags for breaks and for    *)
(* characters received in error; a flag is kept when it decides whether a  *)
(* read ends, or whether good bytes change, vanish or appear on their way  *)
(* (of the output flags opost, without which the others have no effect; of *)
(* software flow control, whose flags -sfc switches together, ixon).       *)
(***************************************************************************)
Flags == {"icrnl", "inlcr", "igncr", "iuclc", "istrip", "parmrk", "ixon",   \* input
          "opost", "icanon", "isig", "echo", "parenb"}

SerialKinds == {"serial", "serial_simple", "serial_et", "serial_tenma_ps",
                "serial_asm340", "serial_l300", "serial_vs_ld",
                "serial_hm310t", "serial_jds6600"}

\* Settings of a port that nobody has configured yet: those of a new Linux
\* terminal.
NewPort == [flags |-> {"icrnl", "ixon", "opost", "icanon", "isig", "echo"},
            vmin  |-> 1]

-----------------------------------------------------------------------------
(* The options that the derived drivers put; they replace what the user    *)
(* gave.  The code notes on -vmin and -ndelay: "should be set with timeout"*)

\* Options o over options u: opts.put() for those of o
o ++ u == [n \in DOMAIN o \cup DOMAIN u |-> IF n \in DOMAIN o THEN o[n] ELSE u[n]]

Common == [parity |-> "8N1", raw |-> 1]
Timed  == [vmin |-> 0, ndelay |-> 0]

serial_simple == Common ++ Timed ++ [icrnl |-> 1, opost |-> 0]
serial_et == Common ++ [ndelay |-> 1, sfc |-> 1]
serial_tenma_ps == Common ++ Timed ++ [sfc |-> 0, opost |-> 1]
serial_asm340 == Common ++ Timed ++ [icrnl |-> 0, opost |-> 1, lcase |-> 1]
serial_l300 == Common ++ [icrnl |-> 0, sfc |-> 1]
\* Mutant: the driver relies on the port for -vmin.
serial_vs_ld_NoVmin == Common ++ [ndelay |-> 0, sfc |-> 0, igncr |-> 1, opost |-> 0]
serial_vs_ld == Common ++ Timed ++ [sfc |-> 0, igncr |-> 1, opost |-> 0]
serial_hm310t == Common ++ Timed ++ [sfc |-> 0, opost |-> 0]
serial_jds6600 == Common ++ [sfc |-> 0, igncr |-> 1]

\* Options of a driver when the user gave u; of the defaults that the drivers
\* put for missing options only -sfc matters here.
Options(k, u) ==
  CASE k = "serial"          -> u
    [] k = "serial_simple"   -> serial_simple ++ u ++ [sfc |-> 1]
    [] k = "serial_asm340"   -> serial_asm340 ++ u ++ [sfc |-> 1]
    [] k = "serial_et"       -> serial_et
    [] k = "serial_tenma_ps" -> serial_tenma_ps
    [] k = "serial_l300"     -> serial_l300
    [] k = "serial_vs_ld"    -> serial_vs_ld
    [] k = "serial_hm310t"   -> serial_hm310t
    [] k = "serial_jds6600"  -> serial_jds6600

-----------------------------------------------------------------------------
(* The constructor of Driver_serial                                        *)

\* Option name of o switches the flags F in S on or off.
set_opt(o, name, F, S) ==
  IF name \notin DOMAIN o THEN S ELSE IF o[name] = 1 THEN S \cup F ELSE S \ F

\* Options that stand for one flag
SetSingle(o, S) ==
  {f \in Flags : IF f \in DOMAIN o THEN o[f] = 1 ELSE f \in S}

\* -parity, where the empty value leaves the setting; checking parity strips
\* the eighth bit, also if an earlier user of the port had switched it on.
SetParity(o, S) ==
  LET Is(V) == "parity" \in DOMAIN o /\ o.parity \in V
      P == IF Is({"8N1", "7S1"}) THEN S \ {"parenb"}
           ELSE IF Is({"7E1", "7O1"}) THEN S \cup {"parenb"} ELSE S
  IN  IF "parenb" \in P THEN P \cup {"istrip"} ELSE P

\* -raw 1 also stops signals, -raw 0 does not bring them back.
SetRaw(o, S) ==
  IF "raw" \notin DOMAIN o THEN S
  ELSE IF o.raw = 1 THEN S \ {"icanon", "isig", "echo"} ELSE S \cup {"icanon", "echo"}

\* -sfc, -nlcnv and -lcase stand for several flags.
SetCombined(o, S) ==
  set_opt(o, "lcase", {"iuclc"},
    set_opt(o, "nlcnv", {"icrnl"},
      set_opt(o, "sfc", {"ixon"}, S)))

\* Settings of port p after a driver with options o has configured it
Configured(o, p) ==
  [flags |-> SetCombined(o, SetRaw(o, SetParity(o, SetSingle(o, p.flags)))),
   vmin  |-> IF "vmin" \in DOMAIN o THEN o.vmin ELSE p.vmin]

\* The port is opened with O_NDELAY, which stays unless -ndelay 0 is given.
NonBlocking(o) == IF "ndelay" \in DOMAIN o THEN o.ndelay = 1 ELSE TRUE

-----------------------------------------------------------------------------
(* What the settings do, termios(3)                                        *)

\* A read from port p returns although nothing comes: at once, or after
\* -timeout (VTIME), which counts from the call if VMIN is 0.
ReadEnds(o, p) == NonBlocking(o) \/ ("icanon" \notin p.flags /\ p.vmin = 0)

\* Every byte passes unchanged, and no other does, in both directions.  (With
\* opost the other output flags, which new terminals have, would change some;
\* parmrk doubles bytes 0xFF.)  Whether parity is checked is up to the line.
Transparent(p) == p.flags \subseteq {"parenb"}
=============================================================================
