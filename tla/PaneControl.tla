---------------------------- MODULE PaneControl ----------------------------
(***************************************************************************)
(* What a pane's program writes passes two parsers: the interceptor of     *)
(* pane.rs, which keeps the modes that decide how keys, pastes and mouse   *)
(* events are encoded for the program, and the vt100 parser, which gets    *)
(* what the interceptor lets through and keeps the screen.                 *)
(*                                                                         *)
(* A decimal number counts as one byte, 256 and more, and the semicolon    *)
(* between two numbers is left out; SUB is like CAN.  What an operating    *)
(* system command says is left open but for its length.  Clipboard         *)
(* requests are in Clipboard, synchronized output is in PanePty; titles,   *)
(* colour queries and reported directories change neither parser and are   *)
(* left out.                                                               *)
(***************************************************************************)
EXTENDS Integers, Sequences

CONSTANTS
    Bytes,       \* bytes a program may write: one of each class
    Numbers,     \* parameters a program may send
    BODY_MAX,    \* bytes of a control sequence's parameters (256 in the code)
    PAYLOAD_MAX, \* bytes of an operating system command (1 MiB)
    TITLE_MAX,   \* bytes of one that may be a title (8192)
    MAX_DEPTH    \* entries of a Kitty keyboard stack (32)

ASSUME ControlAssumption == Bytes \subseteq 0 .. 255 /\ Numbers \subseteq Nat

VARIABLES
    ctl,         \* the interceptor: [mode, buffer, overflow]
    modes,       \* PaneTerminalState: [alt, paste, mouse, kitty, inactive]
    seen,        \* vt100's parser and the screen modes it has set
    stacks,      \* Kitty stacks by screen, as the protocol defines them
    odd          \* a private mode was set in a form only vt100 understands

controlVars == <<ctl, modes, seen, stacks, odd>>

ESC == \h1b
CAN == \h18     \* and SUB, 0x1a
BEL == \h07
ST == \h9c
Bracket == \h5b
Query == \h3f
Set == \h68
Reset == \h6c

Num(n) == 256 + n
C0 == 0 .. \h1f
Middle == \h20 .. \h2f
Finals == \h40 .. \h7e
IsParam(b) == b \in \h20 .. \h3f \/ b >= 256
IsFinal(b) == b \in \h30 .. \h7e \/ b >= 256       \* of an escape sequence
Sigils == \h3c .. \h3f
Colon == \h3a

AllNumbers(s) == \A i \in DOMAIN s : s[i] >= 256

-----------------------------------------------------------------------------
(* The pane's modes *)

NoModes == [alt |-> FALSE, paste |-> FALSE, mouse |-> 0, kitty |-> <<>>, inactive |-> <<>>]

\* flags & KITTY_SUPPORTED, which is 0b1011, as the set of its bits.
Supported(n) == {i \in {0, 1, 3} : (n \div 2^i) % 2 = 1}

Pushed(stack, f) == Append(IF Len(stack) >= MAX_DEPTH THEN Tail(stack) ELSE stack, f)

Popped(stack, n) == SubSeq(stack, 1, Len(stack) - (IF n = 0 THEN 1 ELSE n))

\* modify_top: set, add or take away flags of the top entry.
Modified(stack, f, mode) ==
    LET top == IF stack = <<>> THEN {} ELSE stack[Len(stack)]
    IN  IF mode \notin 1 .. 3 THEN stack
        ELSE Append(IF stack = <<>> THEN stack ELSE SubSeq(stack, 1, Len(stack) - 1),
                    CASE mode = 1 -> f [] mode = 2 -> top \cup f [] OTHER -> top \ f)

\* handle_csi_u, for the forms that change the stack.
CsiU(stack, body) ==
    LET rest == Tail(body)
        n(i, default) == IF i <= Len(rest) THEN rest[i] - 256 ELSE default
    IN  IF body = <<>> \/ ~AllNumbers(rest) THEN stack
        ELSE CASE Head(body) = \h3e /\ Len(rest) <= 1 -> Pushed(stack, Supported(n(1, 0)))
               [] Head(body) = \h3c /\ Len(rest) <= 1 -> Popped(stack, n(1, 1))
               [] Head(body) = \h3d /\ Len(rest) <= 2 -> Modified(stack, Supported(n(1, 0)), n(2, 1))
               [] OTHER -> stack

SetAlternate(m, on) ==
    IF m.alt = on THEN m
    ELSE [alt |-> on, paste |-> m.paste, mouse |-> m.mouse, kitty |-> m.inactive,
          inactive |-> m.kitty]

MouseProtocols == {9, 1000, 1002, 1003}

ApplyDecset(m, n, on) ==
    CASE n \in {47, 1047, 1049} -> SetAlternate(m, on)
      [] n = 2004 -> [m EXCEPT !.paste = on]
      [] n \in MouseProtocols -> [m EXCEPT !.mouse = IF on THEN n ELSE IF @ = n THEN 0 ELSE @]
      [] OTHER -> m

-----------------------------------------------------------------------------
(* The interceptor: a step's new parser state and modes, and its output *)

Goes(mode, buffer, overflow, m, out) ==
    [ctl |-> [mode |-> mode, buffer |-> buffer, overflow |-> overflow], modes |-> m, out |-> out]

\* vt100 does not know 1047: it gets 47, and the erasure that leaving implies.
DecMode(acc, p, final) ==
    LET n == p - 256
    IN  [modes |-> ApplyDecset(acc.modes, n, final = Set),
         out |-> acc.out
                 \o (IF n = 1047 /\ final = Reset /\ acc.modes.alt
                     THEN <<ESC, Bracket, Num(2), \h4a>> ELSE <<>>)
                 \o <<ESC, Bracket, Query, IF n = 1047 THEN Num(47) ELSE p, final>>]

IsDecMode(body, final) ==
    final \in {Set, Reset} /\ body # <<>> /\ body[1] = Query /\ AllNumbers(Tail(body))

DecModes(acc, numbers, final) ==
    LET upto[n \in 0 .. Len(numbers)] ==
            IF n = 0 THEN acc ELSE DecMode(upto[n - 1], numbers[n], final)
    IN  upto[Len(numbers)]

\* As InterceptDecModes, but the body is passed on as it came.
InterceptDecModesAsIs(m, body, final) ==
    [DecModes([modes |-> m, out |-> <<>>], Tail(body), final)
        EXCEPT !.out = <<ESC, Bracket>> \o body \o <<final>>]

\* intercept_dec_modes: one sequence for each parameter.
InterceptDecModes(m, body, final) ==
    IF Len(body) = 1 THEN [modes |-> m, out |-> <<ESC, Bracket, Query, final>>]
    ELSE DecModes([modes |-> m, out |-> <<>>], Tail(body), final)

InGround(c, m, b) ==
    IF b = ESC THEN Goes("escape", c.buffer, c.overflow, m, <<>>)
    ELSE Goes("ground", c.buffer, c.overflow, m, <<b>>)

\* The introducers of strings whose contents nobody reads: DCS, SOS, PM, APC.
StringIntro == {\h50, \h58, \h5e, \h5f}

InEscape(c, m, b) ==
    LET to(mode, out) == Goes(mode, <<>>, FALSE, m, out)
    IN  CASE b = Bracket -> to("csi", <<>>)
          [] b = \h5d -> to("osc", <<>>)
          [] b \in StringIntro -> to("string", <<>>)
          [] b \in Middle -> to("intermediate", <<ESC, b>>)
          [] b \in C0 \ {ESC} -> to("escape", <<b>>)
          [] b = \h63 -> Goes("ground", <<>>, FALSE, NoModes, <<ESC, b>>)
          [] IsFinal(b) /\ b \notin {Bracket, \h5d, \h63} \cup StringIntro ->
               to("ground", <<ESC, b>>)
          [] OTHER -> to("escape", <<>>)

InIntermediate(c, m, b) ==
    IF b = ESC THEN Goes("escape", c.buffer, c.overflow, m, <<CAN>>)
    ELSE Goes(IF IsFinal(b) THEN "ground" ELSE "intermediate", c.buffer, c.overflow, m, <<b>>)

InCsi(c, m, b) ==
    LET k == [m EXCEPT !.kitty = IF b = \h75 THEN CsiU(@, c.buffer) ELSE @]
        end(r) == Goes("ground", <<>>, FALSE, r.modes, r.out)
    IN  CASE b = ESC -> Goes("escape", <<>>, c.overflow, m, <<>>)
          [] b \in Finals /\ c.overflow -> Goes("ground", <<>>, FALSE, m, <<>>)
          [] b \in Finals /\ ~c.overflow ->
               end(IF IsDecMode(c.buffer, b) THEN InterceptDecModes(k, c.buffer, b)
                   ELSE [modes |-> k, out |-> <<ESC, Bracket>> \o c.buffer \o <<b>>])
          [] b \in C0 \ {ESC} -> Goes("csi", c.buffer, c.overflow, m, <<b>>)
          [] b = \h7f -> Goes("csi", c.buffer, c.overflow, m, <<>>)
          [] IsParam(b) /\ ~c.overflow /\ Len(c.buffer) < BODY_MAX ->
               Goes("csi", Append(c.buffer, b), FALSE, m, <<>>)
          [] OTHER -> Goes("csi", c.buffer, TRUE, m, <<>>)

\* A command ends with BEL or with ESC; of the complete ones only a short
\* title is passed on, and it is passed on whole.
InOsc(c, m, b, titled) ==
    LET out == IF titled /\ ~c.overflow /\ Len(c.buffer) <= TITLE_MAX
               THEN <<ESC, \h5d>> \o c.buffer \o <<BEL>> ELSE <<>>
    IN  CASE b = BEL -> Goes("ground", <<>>, FALSE, m, out)
          [] b = ESC -> Goes("escape", <<>>, FALSE, m, out)
          [] b \in C0 \ {BEL, ESC} -> Goes("osc", c.buffer, c.overflow, m, <<>>)
          [] OTHER -> IF ~c.overflow /\ Len(c.buffer) < PAYLOAD_MAX
                      THEN Goes("osc", Append(c.buffer, \h78), FALSE, m, <<>>)
                      ELSE Goes("osc", <<>>, TRUE, m, <<>>)

InString(c, m, b) ==
    Goes(CASE c.mode = "string" /\ b = ESC -> "stringescape"
           [] c.mode = "string" /\ b = ST -> "ground"
           [] c.mode = "stringescape" /\ b = \h5c -> "ground"
           [] OTHER -> "string",
         c.buffer, c.overflow, m, <<>>)

InterceptByte(c, m, b, titled) ==
    CASE b = CAN /\ c.mode # "ground" -> Goes("ground", <<>>, FALSE, m, <<b>>)
      [] c.mode = "ground" -> InGround(c, m, b)
      [] c.mode = "escape" /\ b # CAN -> InEscape(c, m, b)
      [] c.mode = "intermediate" /\ b # CAN -> InIntermediate(c, m, b)
      [] c.mode = "csi" /\ b # CAN -> InCsi(c, m, b)
      [] c.mode = "osc" /\ b # CAN -> InOsc(c, m, b, titled)
      [] OTHER -> InString(c, m, b)

-----------------------------------------------------------------------------
(* vt100: the vte state machine, and decset and decrst on the screen *)

\* A sequence that sets or resets private modes, as vt100 sees it: a number
\* joined to another by a colon is no mode, an intermediate byte is ignored.
Moded(body) ==
    body # <<>> /\ body[1] = Query /\ \A i \in 2 .. Len(body) : body[i] \notin Sigils

IsScreenMode(body, i) ==
    body[i] >= 256 /\ \A j \in {i - 1, i + 1} \cap DOMAIN body : body[j] # Colon

SetMode(v, n, on) ==
    CASE n \in {47, 1049} -> [v EXCEPT !.alt = on]
      [] n = 2004 -> [v EXCEPT !.paste = on]
      [] n \in MouseProtocols -> [v EXCEPT !.mouse = IF on THEN n ELSE IF @ = n THEN 0 ELSE @]
      [] OTHER -> v

\* decset and decrst: the modes of a sequence one after the other.
ScreenModes(v, body, on) ==
    LET upto[n \in 0 .. Len(body)] ==
            IF n = 0 THEN v
            ELSE IF IsScreenMode(body, n) THEN SetMode(upto[n - 1], body[n] - 256, on)
            ELSE upto[n - 1]
    IN  upto[Len(body)]

Blank == [mode |-> "ground", body |-> <<>>, alt |-> FALSE, paste |-> FALSE, mouse |-> 0]

\* The parser with the screen modes of v.
Parsing(v, mode, body) ==
    [mode |-> mode, body |-> body, alt |-> v.alt, paste |-> v.paste, mouse |-> v.mouse]

VteByte(v, b) ==
    LET to(mode) == Parsing(v, mode, <<>>)
    IN  CASE b = CAN -> to("ground")
          [] b = ESC -> to("escape")
          [] v.mode = "escape" /\ b \notin {CAN, ESC} ->
               (CASE b = Bracket -> to("csi")
                  [] b = \h5d -> to("osc")
                  [] b \in StringIntro -> to("string")
                  [] b \in Middle -> to("intermediate")
                  [] b = \h63 -> Blank
                  [] OTHER -> IF IsFinal(b) THEN to("ground") ELSE v)
          [] v.mode = "intermediate" /\ b \notin {CAN, ESC} ->
               IF IsFinal(b) THEN to("ground") ELSE v
          [] v.mode = "csi" /\ b \in Finals ->
               IF b \notin {Set, Reset} \/ ~Moded(v.body) THEN to("ground")
               ELSE ScreenModes(to("ground"), v.body, b = Set)
          [] v.mode = "csi" /\ IsParam(b) -> Parsing(v, "csi", Append(v.body, b))
          [] v.mode = "osc" /\ b = BEL -> to("ground")
          [] OTHER -> v

\* Parser::process
VteBytes(v, out) ==
    LET upto[n \in 0 .. Len(out)] == IF n = 0 THEN v ELSE VteByte(upto[n - 1], out[n])
    IN  upto[Len(out)]

-----------------------------------------------------------------------------
ControlInit ==
    /\ ctl = [mode |-> "ground", buffer |-> <<>>, overflow |-> FALSE]
    /\ modes = NoModes /\ seen = Blank /\ stacks = [on \in BOOLEAN |-> <<>>] /\ odd = FALSE

\* A complete sequence that sets private modes but is not all numbers.
Oddly(b) == /\ ctl.mode = "csi" /\ b \in {Set, Reset} /\ ~ctl.overflow
            /\ Moded(ctl.buffer) /\ ~IsDecMode(ctl.buffer, b)
            /\ \E i \in DOMAIN ctl.buffer : IsScreenMode(ctl.buffer, i)

\* The pane reads a byte: intercept, then Parser::process on what is left.
\* A behaviour is followed up to the first odd sequence.
ReadByte(b, titled) ==
    LET r == InterceptByte(ctl, modes, b, titled)
        ris == ctl.mode = "escape" /\ b = \h63
    IN  /\ ~odd
        /\ ctl' = r.ctl /\ modes' = r.modes
        /\ seen' = VteBytes(seen, r.out)
        /\ stacks' = IF ris THEN [on \in BOOLEAN |-> <<>>]
                     ELSE IF ctl.mode = "csi" /\ b = \h75 /\ ~ctl.overflow
                     THEN [stacks EXCEPT ![seen.alt] = CsiU(@, ctl.buffer)]
                     ELSE stacks
        /\ odd' = Oddly(b)

ControlNext ==
    \/ \E b \in Bytes \cup {Num(n) : n \in Numbers} :
         \E titled \in IF ctl.mode = "osc" THEN BOOLEAN ELSE {FALSE} : ReadByte(b, titled)
    \/ odd /\ UNCHANGED controlVars

ControlSpec == ControlInit /\ [][ControlNext]_controlVars

-----------------------------------------------------------------------------
(* Properties *)

\* The two parsers stay in step whatever a program writes and wherever it
\* breaks off: vt100 is left inside a sequence only where the interceptor is
\* in the same one (an unterminated command never reaches it); both agree on
\* the screen, on pasting and on the mouse; and keys are encoded by the Kitty
\* stack of the screen that is shown.  A private mode written with a colon or
\* an intermediate byte is understood by vt100 alone.
ParsersAgree ==
    /\ seen.mode = IF ctl.mode = "intermediate" THEN "intermediate" ELSE "ground"
    /\ ~odd => /\ <<modes.alt, modes.paste, modes.mouse>> = <<seen.alt, seen.paste, seen.mouse>>
               /\ modes.kitty = stacks[seen.alt]
=============================================================================
