------------------------------- MODULE XParser -------------------------------
(***************************************************************************)
(* The push parser of the XMPP stream (x_parser.c).  The bus hands it one  *)
(* character at a time; it keeps its place in a context (the function that *)
(* r_putc points to), a phase (cr1), three string registers, the attribute *)
(* list and a stack of return contexts, and calls back when an object      *)
(* opens, gets a character of text, or closes.                             *)
(*                                                                         *)
(* p is the parser's record.  Every C function is an operator on it, so    *)
(* that a character handed on to another context is a composition.  What   *)
(* the callbacks saw is the sequence out.                                  *)
(*                                                                         *)
(* An x_string that was cleared keeps its bytes until the next character   *)
(* is put: read as a C string it still has the old text.                   *)
(***************************************************************************)
EXTENDS Naturals, Sequences

CONSTANTS Alpha,     \* x_isalpha(c), '_' and ':' and bytes above 127
          Digit,     \* x_isdigit(c)
          Garbage    \* what memory holds before anything is written to it

White == {" "}                  \* tab, carriage return, line feed and blank
Quote == {"'", "\""}
Dash == {"-", "."}              \* part of a tag name, not of an attribute's
Mark == {"<", ">", "/", "=", "?"}

Char == Alpha \cup Digit \cup White \cup Quote \cup Dash \cup Mark

ASSUME AlphabetAssumption ==
    /\ (Alpha \cup Digit) \cap (White \cup Quote \cup Dash \cup Mark) = {}
    /\ Alpha \cap Digit = {}
    /\ Garbage \notin Char

VARIABLES p,      \* the parser
          out     \* calls of xobjopen, xputchar and xobjclose

vars == <<p, out>>

Text == Seq(Char \cup {Garbage})
Registers == [text : Text, clear : BOOLEAN]
Contexts == {"txt", "tag", "attr", "idle"}
Phases == {"INI", "OBJ_OPENING", "OBJ_CLOSING", "KV_KEY", "KV_WANT_VAL",
           "KV_VAL", "KV_LAV"}
Parsers == [ctx : Contexts,                  \* r_putc
            cr1 : Phases,
            r0 : Registers,                  \* tag name
            r1 : Registers,                  \* attribute name
            r2 : Registers,                  \* attribute value
            g1 : Char \cup {Garbage},        \* terminator of idle
            g2 : BOOLEAN,                    \* idle copies to r2
            attrs : SUBSET (Text \X Text),
            stack : Seq(Contexts),
            status : {"ok", "BUG", "exit"}]
Calls == [op : {"open"}, name : Text, attrs : SUBSET (Text \X Text)]
         \cup [op : {"text"}, c : Char] \cup [op : {"close"}, name : Text]

\* Registers hold characters, and the callbacks get texts and attribute lists.
TypeOK == p \in Parsers /\ out \in Seq(Calls)

-----------------------------------------------------------------------------
(* Strings and attribute lists. *)

\* x_string_clear
Clear(r) == [r EXCEPT !.clear = TRUE]

\* x_string_putc
Put(r, c) == [text |-> IF r.clear THEN <<c>> ELSE Append(r.text, c), clear |-> FALSE]

\* setattr
SetAttr(as, k, v) == {a \in as : a[1] # k} \cup {<<k, v>>}

\* Mutation: the key is kept, without a value.
DelAttrKeepsKey(as, k) == {a \in as : a[1] # k} \cup {<<k, Garbage>>}

\* setattr without a value
DelAttr(as, k) == {a \in as : a[1] # k}

\* The block that clears the registers of attributes.
Cleared(q) ==
    [q EXCEPT !.r1 = Clear(@), !.r2 = Clear(@), !.g1 = Garbage, !.g2 = FALSE]

\* x_parser_push and the change of context that follows it
Enter(q, ret) == [q EXCEPT !.stack = Append(@, ret), !.ctx = "idle"]

\* The fields __x_pparser_init sets.
Reset(q) ==
    [ctx |-> "txt", cr1 |-> "INI", r0 |-> q.r0, r1 |-> Clear(q.r1), r2 |-> Clear(q.r2),
     g1 |-> Garbage, g2 |-> FALSE, attrs |-> {}, stack |-> <<>>, status |-> q.status]

-----------------------------------------------------------------------------
(* The contexts.  Each operator returns the parser after character c. *)

NameStart == Alpha
NameChar == Alpha \cup Digit \cup Dash
KeyChar == Alpha \cup Digit

\* x_parser_ctx_txt, the part that is not a callback
TxtStep(q, c) == IF c = "<" THEN [q EXCEPT !.ctx = "tag"] ELSE q

\* Mutation: the return context stays on the stack.
IdleStepNoPop(q, c) ==
    IF c # q.g1
    THEN IF q.g2 THEN [q EXCEPT !.r2 = Put(@, c)] ELSE q
    ELSE [q EXCEPT !.ctx = q.stack[Len(q.stack)]]

\* x_parser_ctx_idle: up to the terminator, characters are copied or skipped.
IdleStep(q, c) ==
    IF c # q.g1
    THEN IF q.g2 THEN [q EXCEPT !.r2 = Put(@, c)] ELSE q
    ELSE [q EXCEPT !.ctx = q.stack[Len(q.stack)],
                   !.stack = SubSeq(@, 1, Len(@) - 1)]

\* x_parser_ctx_tag in phase X_PP_INI: right after "<"
TagIni(q, c) ==
    CASE c \in NameStart -> [q EXCEPT !.cr1 = "OBJ_OPENING", !.r0 = Put(Clear(@), c)]
      [] c = "?" -> Enter([q EXCEPT !.g1 = c], "tag")
      [] c = ">" -> [q EXCEPT !.r0 = Clear(@), !.ctx = "txt"]
      [] c = "/" -> [Cleared(q) EXCEPT !.cr1 = "OBJ_CLOSING"]
      [] OTHER -> q

\* phase X_PP_OBJ_OPENING: in the name of a tag, or after its attributes.
\* Any character that is not expected there meets BUG().
TagOpening(q, c) ==
    CASE c \in NameChar -> [q EXCEPT !.r0 = Put(@, c)]
      [] c = "/" -> [Cleared(q) EXCEPT !.cr1 = "OBJ_CLOSING"]
      [] c = ">" -> [Cleared(q) EXCEPT !.r0 = Clear(@), !.cr1 = "INI", !.ctx = "txt"]
      [] c \in White -> [Cleared(q) EXCEPT !.attrs = {}, !.ctx = "attr"]
      [] OTHER -> [q EXCEPT !.status = "BUG"]

\* phase X_PP_OBJ_CLOSING: in the name of a closing tag
TagClosing(q, c) ==
    CASE c = ">" -> [Cleared(q) EXCEPT !.r0 = Clear(@), !.cr1 = "INI", !.ctx = "txt"]
      [] c \in NameChar -> [q EXCEPT !.r0 = Put(@, c)]
      [] OTHER -> q

\* x_parser_ctx_tag.  In any other phase it ends the program.
TagStep(q, c) ==
    CASE q.cr1 = "INI" -> TagIni(q, c)
      [] q.cr1 = "OBJ_OPENING" -> TagOpening(q, c)
      [] q.cr1 = "OBJ_CLOSING" -> TagClosing(q, c)
      [] OTHER -> [q EXCEPT !.status = "exit"]

\* ret_to_tag, up to the call that hands c on
RetToTag(q) ==
    [q EXCEPT !.r1 = Clear(@), !.r2 = Clear(@), !.cr1 = "OBJ_OPENING", !.ctx = "tag"]

\* The end of an attribute with a value.
Stored(q) == [q EXCEPT !.attrs = SetAttr(@, q.r1.text, q.r2.text)]

\* Mutation: the registers keep the attribute that was stored.
AttrLavKeeps(q, c) ==
    CASE c \in NameStart -> [q EXCEPT !.r2 = Put(@, c)]
      [] c \in White -> [Stored(q) EXCEPT !.cr1 = "INI"]
      [] OTHER -> RetToTag(Stored(q))

\* phase X_PP_KV_LAV: behind the value
AttrLav(q, c) ==
    CASE c \in NameStart -> [q EXCEPT !.r2 = Put(@, c)]
      [] c \in White -> [Stored(q) EXCEPT !.r1 = Clear(@), !.r2 = Clear(@), !.cr1 = "INI"]
      [] OTHER -> RetToTag(Stored(q))

\* phase X_PP_KV_VAL: before the value
AttrVal(q, c) ==
    CASE c \in White -> q
      [] c \in Quote -> Enter([q EXCEPT !.g1 = c, !.g2 = TRUE, !.cr1 = "KV_LAV",
                                        !.r2 = Clear(@)], "attr")
      [] c \in KeyChar -> [q EXCEPT !.r2 = Put(@, c), !.cr1 = "KV_LAV"]
      [] OTHER -> RetToTag(q)

\* phase X_PP_KV_WANT_VAL: behind a name that was followed by a blank
AttrWantVal(q, c) ==
    CASE c = "=" -> [q EXCEPT !.cr1 = "KV_VAL"]
      [] c \in White -> q
      [] c \in NameStart -> [q EXCEPT !.attrs = DelAttr(@, q.r1.text), !.r2 = Clear(@),
                                      !.r1 = Put(Clear(@), c), !.cr1 = "KV_KEY"]
      [] OTHER -> RetToTag(q)

\* phase X_PP_KV_KEY: in the name; other characters are ignored
AttrKey(q, c) ==
    CASE c \in KeyChar -> [q EXCEPT !.r1 = Put(@, c)]
      [] c = "=" -> [q EXCEPT !.cr1 = "KV_VAL"]
      [] c \in White -> [q EXCEPT !.cr1 = "KV_WANT_VAL"]
      [] OTHER -> q

\* any other phase: before a name
AttrNext(q, c) ==
    CASE c \in NameStart -> [q EXCEPT !.r1 = Put(@, c), !.cr1 = "KV_KEY"]
      [] c \in White -> q
      [] OTHER -> RetToTag(q)

\* x_parser_ctx_attr, without the character that ret_to_tag hands on
AttrStep(q, c) ==
    CASE q.cr1 = "KV_LAV" -> AttrLav(q, c)
      [] q.cr1 = "KV_VAL" -> AttrVal(q, c)
      [] q.cr1 = "KV_WANT_VAL" -> AttrWantVal(q, c)
      [] q.cr1 = "KV_KEY" -> AttrKey(q, c)
      [] OTHER -> AttrNext(q, c)

-----------------------------------------------------------------------------
(* One character. *)

\* The context that handles c in the end, and the parser it finds: a character
\* that ends the attributes is handed on to x_parser_ctx_tag.
Handed(q, c) == IF q.ctx = "attr" THEN AttrStep(q, c) ELSE q

\* What the callbacks are told of c by a parser whose context handles it.
Told(q, c) ==
    CASE q.ctx = "txt" /\ c # "<" -> <<[op |-> "text", c |-> c]>>
      [] q.ctx = "tag" /\ q.cr1 = "OBJ_OPENING" /\ c \in {"/", ">"} ->
            <<[op |-> "open", name |-> q.r0.text, attrs |-> q.attrs]>>
      [] q.ctx = "tag" /\ q.cr1 = "OBJ_CLOSING" /\ c = ">" ->
            <<[op |-> "close", name |-> q.r0.text]>>
      [] OTHER -> <<>>

Step(q, c) ==
    CASE q.ctx = "txt" -> TxtStep(q, c)
      [] q.ctx = "idle" -> IdleStep(q, c)
      [] q.ctx = "tag" -> TagStep(q, c)
      [] OTHER -> q

\* r_putc: c in the context of the parser.  A callback of a closing tag may
\* reset the parser (x_bus_reset_stream) before the tag is finished.
Putc(c) ==
    /\ p.status = "ok"
    /\ LET q == Handed(p, c)
           done == p.ctx = "attr" /\ q.ctx # "tag"
           told == IF done THEN <<>> ELSE Told(q, c)
           next == IF done THEN q ELSE Step(q, c)
       IN  /\ out' = out \o told
           /\ \/ p' = next
              \/ /\ told # <<>> /\ told[1].op = "close"
                 /\ p' = Step([Reset(q) EXCEPT !.cr1 = q.cr1, !.ctx = q.ctx], c)

NewRegister == [text |-> <<Garbage>>, clear |-> TRUE]

Init ==
    /\ p = [ctx |-> "txt", cr1 |-> "INI", r0 |-> NewRegister, r1 |-> NewRegister,
            r2 |-> NewRegister, g1 |-> Garbage, g2 |-> FALSE, attrs |-> {},
            stack |-> <<>>, status |-> "ok"]
    /\ out = <<>>

Next == \E c \in Char : Putc(c)

Spec == Init /\ [][Next]_vars

-----------------------------------------------------------------------------
(* Properties. *)

\* The context of parser q can handle the phase it is in, and the stack holds
\* the one context to return to.
Consistent(q) ==
    /\ q.status # "exit"
    /\ q.ctx = "txt" => q.cr1 = "INI" /\ ~q.g2
    /\ q.ctx = "tag" => q.cr1 \in {"INI", "OBJ_OPENING", "OBJ_CLOSING"}
    /\ q.ctx = "tag" /\ q.cr1 # "OBJ_OPENING" => ~q.g2
    /\ q.ctx = "attr" => q.cr1 # "OBJ_CLOSING"
    /\ q.ctx # "idle" => q.stack = <<>>
    /\ q.ctx = "idle" => \/ q.stack = <<"tag">> /\ q.cr1 = "INI" /\ ~q.g2
                         \/ q.stack = <<"attr">> /\ q.cr1 = "KV_LAV" /\ q.g2

\* BUG() is met only in the name of an opening tag or behind its attributes.
StopsAtTag(q) == q.status = "BUG" => q.ctx = "tag" /\ q.cr1 = "OBJ_OPENING"

\* Whatever arrives, the parser returns only to contexts it has pushed, is in
\* a phase its context can handle, so that x_parser_ctx_tag never calls exit(),
\* and copies to the value register only inside a quoted value.  There is one
\* way to end the program, which inputs such as "<a=" take: the BUG() of
\* x_parser_ctx_tag for an unexpected character in an opening tag.
Disciplined == Consistent(p) /\ StopsAtTag(p)

=============================================================================
