---------------------------- MODULE XParserProofs ----------------------------
(***************************************************************************)
(* The parser keeps its types and its discipline for every alphabet and    *)
(* every input, of any length: Parsers and Consistent together are         *)
(* inductive, context by context and phase by phase; where the program can *)
(* end is then read off the contexts.                                      *)
(***************************************************************************)
EXTENDS XParser, TLAPS

\* The inductive invariant, of a parser value.
Good(q) == q \in Parsers /\ Consistent(q)

-----------------------------------------------------------------------------
(* Registers and blocks that several phases share. *)

\* Clearing and extending a register gives a register.
LEMMA RegisterTypes ==
    ASSUME NEW r \in Registers, NEW c \in Char
    PROVE  /\ Clear(r) \in Registers
           /\ Put(r, c) \in Registers
  <1>1. Clear(r) \in Registers
    BY DEF Clear, Registers
  <1>2. Put(r, c) \in Registers
    <2>1. <<c>> \in Text
      BY DEF Text
    <2>2. Append(r.text, c) \in Text
      BY DEF Registers, Text
    <2> QED
      BY <2>1, <2>2 DEF Put, Registers
  <1> QED
    BY <1>1, <1>2

\* The block that clears the attribute registers touches nothing else.
LEMMA ClearedIs ==
    ASSUME NEW q \in Parsers
    PROVE  /\ Cleared(q) \in Parsers
           /\ ~Cleared(q).g2
           /\ Cleared(q).ctx = q.ctx /\ Cleared(q).cr1 = q.cr1
           /\ Cleared(q).r0 = q.r0 /\ Cleared(q).attrs = q.attrs
           /\ Cleared(q).stack = q.stack /\ Cleared(q).status = q.status
  <1>1. Clear(q.r1) \in Registers /\ Clear(q.r2) \in Registers
    BY DEF Clear, Registers, Parsers
  <1> QED
    BY <1>1 DEF Cleared, Parsers

\* The attribute list stays a set of pairs of texts.
LEMMA AttrTypes ==
    ASSUME NEW as \in SUBSET (Text \X Text), NEW k \in Text, NEW v \in Text
    PROVE  SetAttr(as, k, v) \in SUBSET (Text \X Text)
           /\ DelAttr(as, k) \in SUBSET (Text \X Text)
  <1>1. <<k, v>> \in Text \X Text
    OBVIOUS
  <1>2. {a \in as : a[1] # k} \in SUBSET (Text \X Text)
    OBVIOUS
  <1> QED
    BY <1>1, <1>2 DEF SetAttr, DelAttr

-----------------------------------------------------------------------------
(* One lemma per phase. *)

\* Text between two tags
LEMMA TxtGood ==
    ASSUME NEW q, Good(q), NEW c \in Char, q.ctx = "txt"
    PROVE  Good(TxtStep(q, c))
  BY DEF Good, Consistent, TxtStep, Parsers, Contexts

\* Characters are copied or skipped up to the terminator.
LEMMA IdleGood ==
    ASSUME NEW q, Good(q), NEW c \in Char, q.ctx = "idle"
    PROVE  Good(IdleStep(q, c))
  <1> q \in Parsers
    BY DEF Good
  <1>1. CASE c # q.g1
    <2>1. Put(q.r2, c) \in Registers
      BY RegisterTypes DEF Parsers
    <2> QED
      BY <1>1, <2>1 DEF Good, Consistent, IdleStep, Parsers
  <1>2. CASE c = q.g1
    <2>0. PICK ret \in {"tag", "attr"} :
              /\ q.stack = <<ret>> /\ q.status # "exit"
              /\ \/ ret = "tag" /\ q.cr1 = "INI" /\ ~q.g2
                 \/ ret = "attr" /\ q.cr1 = "KV_LAV" /\ q.g2
      BY DEF Good, Consistent
    <2>a. Len(<<ret>>) = 1 /\ <<ret>>[1] = ret /\ SubSeq(<<ret>>, 1, 0) = <<>>
      OBVIOUS
    <2>b. q.stack[Len(q.stack)] = ret /\ SubSeq(q.stack, 1, Len(q.stack) - 1) = <<>>
      <3>1. Len(q.stack) - 1 = 0
        BY <2>0, <2>a
      <3> QED
        BY <2>0, <2>a, <3>1
    <2>1. IdleStep(q, c) = [q EXCEPT !.ctx = ret, !.stack = <<>>]
      BY <1>2, <2>b DEF IdleStep
    <2> DEFINE n == [q EXCEPT !.ctx = ret, !.stack = <<>>]
    <2>2. n \in Parsers
      <3>1. <<>> \in Seq(Contexts) /\ ret \in Contexts
        BY DEF Contexts
      <3> QED
        BY <3>1 DEF Parsers
    <2>3. /\ n.ctx = ret /\ n.stack = <<>> /\ n.cr1 = q.cr1 /\ n.g2 = q.g2
          /\ n.status = q.status
      BY DEF Parsers
    <2>4. Consistent(n)
      <3> HIDE DEF n
      <3> QED
        BY <2>0, <2>3 DEF Consistent
    <2> QED
      BY <2>1, <2>2, <2>4 DEF Good
  <1> QED
    BY <1>1, <1>2

\* x_parser_push: the idle context is entered with the one to return to on
\* the stack.
LEMMA EnterGood ==
    ASSUME NEW q \in Parsers, NEW ret \in {"tag", "attr"}, q.stack = <<>>,
           q.status # "exit",
           \/ ret = "tag" /\ q.cr1 = "INI" /\ ~q.g2
           \/ ret = "attr" /\ q.cr1 = "KV_LAV" /\ q.g2
    PROVE  Good(Enter(q, ret))
  <1>1. Enter(q, ret) = [q EXCEPT !.stack = <<ret>>, !.ctx = "idle"]
    <2>1. Append(q.stack, ret) = <<ret>>
      OBVIOUS
    <2> QED
      BY <2>1 DEF Enter, Parsers
  <1>2. <<ret>> \in Seq(Contexts)
    BY DEF Contexts
  <1>3. Enter(q, ret) \in Parsers
    BY <1>1, <1>2 DEF Parsers, Contexts
  <1>4. Consistent(Enter(q, ret))
    BY <1>1 DEF Consistent, Parsers
  <1> QED
    BY <1>3, <1>4 DEF Good

\* The character behind "<"
LEMMA TagIniGood ==
    ASSUME NEW q, Good(q), NEW c \in Char, q.ctx = "tag", q.cr1 = "INI"
    PROVE  Good(TagIni(q, c))
  <1> q \in Parsers
    BY DEF Good
  <1>0. q.stack = <<>> /\ ~q.g2 /\ q.status # "exit"
    BY DEF Good, Consistent
  <1>1. CASE c \in NameStart
    <2>1. Put(Clear(q.r0), c) \in Registers
      BY RegisterTypes DEF Parsers
    <2>2. TagIni(q, c) = [q EXCEPT !.cr1 = "OBJ_OPENING", !.r0 = Put(Clear(@), c)]
      BY <1>1, AlphabetAssumption DEF TagIni, NameStart, Mark
    <2> QED
      BY <2>1, <2>2, <1>0 DEF Good, Consistent, Parsers, Phases
  <1>2. CASE c = "?"
    <2>1. TagIni(q, c) = Enter([q EXCEPT !.g1 = c], "tag")
      BY <1>2, AlphabetAssumption DEF TagIni, NameStart, Mark
    <2>2. [q EXCEPT !.g1 = c] \in Parsers
      BY DEF Parsers
    <2>3. /\ [q EXCEPT !.g1 = c].stack = <<>> /\ [q EXCEPT !.g1 = c].status # "exit"
          /\ [q EXCEPT !.g1 = c].cr1 = "INI" /\ ~[q EXCEPT !.g1 = c].g2
      BY <1>0 DEF Parsers
    <2> QED
      BY <2>1, <2>2, <2>3, EnterGood
  <1>3. CASE c = ">"
    <2>1. TagIni(q, c) = [q EXCEPT !.r0 = Clear(@), !.ctx = "txt"]
      BY <1>3, AlphabetAssumption DEF TagIni, NameStart, Mark
    <2>2. Clear(q.r0) \in Registers
      BY RegisterTypes DEF Parsers
    <2> QED
      BY <2>1, <2>2, <1>0 DEF Good, Consistent, Parsers, Contexts
  <1>4. CASE c = "/"
    <2>1. TagIni(q, c) = [Cleared(q) EXCEPT !.cr1 = "OBJ_CLOSING"]
      BY <1>4, AlphabetAssumption DEF TagIni, NameStart, Mark
    <2> QED
      BY <2>1, ClearedIs, <1>0 DEF Good, Consistent, Parsers, Phases
  <1>5. CASE c \notin NameStart \cup {"?", ">", "/"}
    <2>1. TagIni(q, c) = q
      BY <1>5 DEF TagIni
    <2> QED
      BY <2>1
  <1> QED
    BY <1>1, <1>2, <1>3, <1>4, <1>5

\* The end of a tag: registers cleared, text context.
LEMMA EndOfTag ==
    ASSUME NEW q \in Parsers, q.stack = <<>>, q.status # "exit"
    PROVE  Good([Cleared(q) EXCEPT !.r0 = Clear(@), !.cr1 = "INI", !.ctx = "txt"])
  <1>1. Clear(Cleared(q).r0) \in Registers
    BY ClearedIs, RegisterTypes DEF Parsers, Clear, Registers
  <1> DEFINE k == Cleared(q)
             n == [k EXCEPT !.r0 = Clear(@), !.cr1 = "INI", !.ctx = "txt"]
  <1>2. k \in Parsers /\ ~k.g2 /\ k.stack = <<>> /\ k.status # "exit"
    BY ClearedIs
  <1> HIDE DEF k
  <1>3. /\ n \in Parsers /\ n.ctx = "txt" /\ n.cr1 = "INI" /\ n.g2 = k.g2
        /\ n.stack = k.stack /\ n.status = k.status
    BY <1>1, <1>2 DEF Parsers, Phases, Contexts, k
  <1> HIDE DEF n
  <1>4. Good(n)
    BY <1>2, <1>3 DEF Good, Consistent
  <1> QED
    BY <1>4 DEF n, k

\* The name of an opening tag
LEMMA TagOpeningGood ==
    ASSUME NEW q, Good(q), NEW c \in Char, q.ctx = "tag", q.cr1 = "OBJ_OPENING"
    PROVE  Good(TagOpening(q, c))
  <1> q \in Parsers
    BY DEF Good
  <1>0. q.stack = <<>> /\ q.status # "exit"
    BY DEF Good, Consistent
  <1>1. CASE c \in NameChar
    <2>1. Put(q.r0, c) \in Registers
      BY RegisterTypes DEF Parsers
    <2>2. TagOpening(q, c) = [q EXCEPT !.r0 = Put(@, c)]
      BY <1>1, AlphabetAssumption DEF TagOpening, NameChar, Mark, White, Dash
    <2> QED
      BY <2>1, <2>2 DEF Good, Consistent, Parsers
  <1>2. CASE c = "/"
    <2>1. TagOpening(q, c) = [Cleared(q) EXCEPT !.cr1 = "OBJ_CLOSING"]
      BY <1>2, AlphabetAssumption DEF TagOpening, NameChar, Mark, White, Dash
    <2> QED
      BY <2>1, ClearedIs, <1>0 DEF Good, Consistent, Parsers, Phases
  <1>3. CASE c = ">"
    <2>1. TagOpening(q, c) = [Cleared(q) EXCEPT !.r0 = Clear(@), !.cr1 = "INI", !.ctx = "txt"]
      BY <1>3, AlphabetAssumption DEF TagOpening, NameChar, Mark, White, Dash
    <2> QED
      BY <2>1, EndOfTag, <1>0
  <1>4. CASE c \in White
    <2>1. TagOpening(q, c) = [Cleared(q) EXCEPT !.attrs = {}, !.ctx = "attr"]
      BY <1>4, AlphabetAssumption DEF TagOpening, NameChar, Mark, White, Dash
    <2> QED
      <3> DEFINE k == Cleared(q)
                 n == [k EXCEPT !.attrs = {}, !.ctx = "attr"]
      <3>1. /\ k \in Parsers /\ k.stack = <<>> /\ k.status # "exit"
            /\ k.cr1 = "OBJ_OPENING"
        BY ClearedIs, <1>0
      <3> HIDE DEF k
      <3>2. /\ n \in Parsers /\ n.ctx = "attr" /\ n.cr1 = k.cr1
            /\ n.stack = k.stack /\ n.status = k.status
        BY <3>1 DEF Parsers, Contexts
      <3> HIDE DEF n
      <3>3. Good(n)
        BY <3>1, <3>2 DEF Good, Consistent
      <3> QED
        BY <2>1, <3>3 DEF n, k
  <1>5. CASE c \notin NameChar \cup {"/", ">"} \cup White
    <2>1. TagOpening(q, c) = [q EXCEPT !.status = "BUG"]
      BY <1>5 DEF TagOpening
    <2> QED
      BY <2>1 DEF Good, Consistent, Parsers
  <1> QED
    BY <1>1, <1>2, <1>3, <1>4, <1>5

\* The name of a closing tag
LEMMA TagClosingGood ==
    ASSUME NEW q, Good(q), NEW c \in Char, q.ctx = "tag", q.cr1 = "OBJ_CLOSING"
    PROVE  Good(TagClosing(q, c))
  <1> q \in Parsers
    BY DEF Good
  <1>0. q.stack = <<>> /\ q.status # "exit"
    BY DEF Good, Consistent
  <1>1. CASE c = ">"
    <2>1. TagClosing(q, c) = [Cleared(q) EXCEPT !.r0 = Clear(@), !.cr1 = "INI", !.ctx = "txt"]
      BY <1>1, AlphabetAssumption DEF TagClosing, NameChar, Mark, White, Dash
    <2> QED
      BY <2>1, EndOfTag, <1>0
  <1>2. CASE c \in NameChar
    <2>1. Put(q.r0, c) \in Registers
      BY RegisterTypes DEF Parsers
    <2>2. TagClosing(q, c) = [q EXCEPT !.r0 = Put(@, c)]
      BY <1>2, AlphabetAssumption DEF TagClosing, NameChar, Mark, White, Dash
    <2> QED
      BY <2>1, <2>2 DEF Good, Consistent, Parsers
  <1>3. CASE c \notin NameChar \cup {">"}
    <2>1. TagClosing(q, c) = q
      BY <1>3 DEF TagClosing
    <2> QED
      BY <2>1
  <1> QED
    BY <1>1, <1>2, <1>3

\* x_parser_ctx_tag is never called in a phase it does not know.
LEMMA TagGood ==
    ASSUME NEW q, Good(q), NEW c \in Char, q.ctx = "tag"
    PROVE  Good(TagStep(q, c))
  <1>1. q.cr1 \in {"INI", "OBJ_OPENING", "OBJ_CLOSING"}
    BY DEF Good, Consistent
  <1>2. CASE q.cr1 = "INI"
    BY <1>2, TagIniGood DEF TagStep
  <1>3. CASE q.cr1 = "OBJ_OPENING"
    BY <1>3, TagOpeningGood DEF TagStep
  <1>4. CASE q.cr1 = "OBJ_CLOSING"
    BY <1>4, TagClosingGood DEF TagStep
  <1> QED
    BY <1>1, <1>2, <1>3, <1>4

\* Leaving the attributes leads to the opening phase of the tag context.
LEMMA RetToTagGood ==
    ASSUME NEW q \in Parsers, q.stack = <<>>, q.status # "exit"
    PROVE  Good(RetToTag(q)) /\ RetToTag(q).ctx = "tag"
  <1>1. Clear(q.r1) \in Registers /\ Clear(q.r2) \in Registers
    BY RegisterTypes DEF Parsers, Clear, Registers
  <1>2. /\ RetToTag(q) \in Parsers /\ RetToTag(q).ctx = "tag"
        /\ RetToTag(q).cr1 = "OBJ_OPENING" /\ RetToTag(q).stack = q.stack
        /\ RetToTag(q).status = q.status
    BY <1>1 DEF RetToTag, Parsers, Phases, Contexts
  <1> QED
    BY <1>2 DEF Good, Consistent

\* Storing an attribute changes the list only.
LEMMA StoredIs ==
    ASSUME NEW q \in Parsers
    PROVE  /\ Stored(q) \in Parsers /\ Stored(q).ctx = q.ctx
           /\ Stored(q).r1 = q.r1 /\ Stored(q).r2 = q.r2
           /\ Stored(q).stack = q.stack /\ Stored(q).status = q.status
  <1>1. SetAttr(q.attrs, q.r1.text, q.r2.text) \in SUBSET (Text \X Text)
    <2>1. q.attrs \in SUBSET (Text \X Text) /\ q.r1.text \in Text /\ q.r2.text \in Text
      BY DEF Parsers, Registers
    <2> QED
      BY <2>1, AttrTypes
  <1> QED
    BY <1>1 DEF Stored, Parsers

\* A parser in the attribute context whose phase is not that of a closing tag.
LEMMA AttrStays ==
    ASSUME NEW q \in Parsers, q.ctx = "attr", q.cr1 # "OBJ_CLOSING", q.stack = <<>>,
           q.status # "exit"
    PROVE  Good(q)
  BY DEF Good, Consistent

\* Behind the value
LEMMA AttrLavGood ==
    ASSUME NEW q, Good(q), NEW c \in Char, q.ctx = "attr"
    PROVE  Good(AttrLav(q, c))
  <1> q \in Parsers
    BY DEF Good
  <1>0. q.stack = <<>> /\ q.status # "exit" /\ q.cr1 # "OBJ_CLOSING"
    BY DEF Good, Consistent
  <1>1. CASE c \in NameStart
    <2>1. AttrLav(q, c) = [q EXCEPT !.r2 = Put(@, c)]
      BY <1>1, AlphabetAssumption DEF AttrLav, KeyChar, NameStart, Mark, White, Quote
    <2>2. Put(q.r2, c) \in Registers
      BY RegisterTypes DEF Parsers, Clear, Registers
    <2>3. [q EXCEPT !.r2 = Put(@, c)] \in Parsers
      BY <2>2 DEF Parsers, Phases
    <2> QED
      BY <2>1, <2>3, <1>0, AttrStays DEF Parsers
  <1>2. CASE c \in White
    <2>1. AttrLav(q, c) = [Stored(q) EXCEPT !.r1 = Clear(@), !.r2 = Clear(@), !.cr1 = "INI"]
      BY <1>2, AlphabetAssumption DEF AttrLav, KeyChar, NameStart, Mark, White, Quote
    <2> DEFINE k == Stored(q)
    <2>2. k \in Parsers /\ k.ctx = "attr" /\ k.stack = <<>> /\ k.status # "exit"
      BY StoredIs, <1>0
    <2> HIDE DEF k
    <2>3. Clear(k.r1) \in Registers /\ Clear(k.r2) \in Registers
      BY <2>2 DEF Parsers, Clear, Registers
    <2> DEFINE n == [k EXCEPT !.r1 = Clear(@), !.r2 = Clear(@), !.cr1 = "INI"]
    <2>4. /\ n \in Parsers /\ n.ctx = k.ctx /\ n.cr1 = "INI" /\ n.stack = k.stack
          /\ n.status = k.status
      BY <2>2, <2>3 DEF Parsers, Phases
    <2> HIDE DEF n
    <2>5. Good(n)
      BY <2>2, <2>4, AttrStays
    <2> QED
      BY <2>1, <2>5 DEF n, k
  <1>3. CASE c \notin NameStart \cup White
    <2>1. AttrLav(q, c) = RetToTag(Stored(q))
      BY <1>3 DEF AttrLav
    <2>2. Stored(q) \in Parsers /\ Stored(q).stack = <<>> /\ Stored(q).status # "exit"
      BY StoredIs, <1>0
    <2> QED
      BY <2>1, <2>2, RetToTagGood
  <1> QED
    BY <1>1, <1>2, <1>3

\* Before the value
LEMMA AttrValGood ==
    ASSUME NEW q, Good(q), NEW c \in Char, q.ctx = "attr"
    PROVE  Good(AttrVal(q, c))
  <1> q \in Parsers
    BY DEF Good
  <1>0. q.stack = <<>> /\ q.status # "exit" /\ q.cr1 # "OBJ_CLOSING"
    BY DEF Good, Consistent
  <1>1. CASE c \in White
    <2>1. AttrVal(q, c) = q
      BY <1>1, AlphabetAssumption DEF AttrVal, KeyChar, NameStart, Mark, White, Quote
    <2> QED
      BY <2>1
  <1>2. CASE c \in Quote
    <2>1. AttrVal(q, c) = Enter([q EXCEPT !.g1 = c, !.g2 = TRUE, !.cr1 = "KV_LAV", !.r2 = Clear(@)], "attr")
      BY <1>2, AlphabetAssumption DEF AttrVal, KeyChar, NameStart, Mark, White, Quote
    <2> DEFINE n == [q EXCEPT !.g1 = c, !.g2 = TRUE, !.cr1 = "KV_LAV", !.r2 = Clear(@)]
    <2>2. Clear(q.r2) \in Registers
      BY RegisterTypes DEF Parsers, Clear, Registers
    <2>3. /\ n \in Parsers /\ n.stack = q.stack /\ n.status = q.status
          /\ n.cr1 = "KV_LAV" /\ n.g2
      BY <2>2 DEF Parsers, Phases
    <2> HIDE DEF n
    <2>4. Good(Enter(n, "attr"))
      BY <2>3, <1>0, EnterGood
    <2> QED
      BY <2>1, <2>4 DEF n
  <1>3. CASE c \in KeyChar
    <2>1. AttrVal(q, c) = [q EXCEPT !.r2 = Put(@, c), !.cr1 = "KV_LAV"]
      BY <1>3, AlphabetAssumption DEF AttrVal, KeyChar, NameStart, Mark, White, Quote
    <2>2. Put(q.r2, c) \in Registers
      BY RegisterTypes DEF Parsers, Clear, Registers
    <2>3. [q EXCEPT !.r2 = Put(@, c), !.cr1 = "KV_LAV"] \in Parsers
      BY <2>2 DEF Parsers, Phases
    <2> QED
      BY <2>1, <2>3, <1>0, AttrStays DEF Parsers
  <1>4. CASE c \notin White \cup Quote \cup KeyChar
    <2>1. AttrVal(q, c) = RetToTag(q)
      BY <1>4 DEF AttrVal
    <2> QED
      BY <2>1, <1>0, RetToTagGood
  <1> QED
    BY <1>1, <1>2, <1>3, <1>4

\* Behind a name that was followed by a blank
LEMMA AttrWantValGood ==
    ASSUME NEW q, Good(q), NEW c \in Char, q.ctx = "attr"
    PROVE  Good(AttrWantVal(q, c))
  <1> q \in Parsers
    BY DEF Good
  <1>0. q.stack = <<>> /\ q.status # "exit" /\ q.cr1 # "OBJ_CLOSING"
    BY DEF Good, Consistent
  <1>1. CASE c = "="
    <2>1. AttrWantVal(q, c) = [q EXCEPT !.cr1 = "KV_VAL"]
      BY <1>1, AlphabetAssumption DEF AttrWantVal, KeyChar, NameStart, Mark, White, Quote
    <2>2. [q EXCEPT !.cr1 = "KV_VAL"] \in Parsers
      BY DEF Parsers, Phases
    <2> QED
      BY <2>1, <2>2, <1>0, AttrStays DEF Parsers
  <1>2. CASE c \in White
    <2>1. AttrWantVal(q, c) = q
      BY <1>2, AlphabetAssumption DEF AttrWantVal, KeyChar, NameStart, Mark, White, Quote
    <2> QED
      BY <2>1
  <1>3. CASE c \in NameStart
    <2>1. AttrWantVal(q, c) = [q EXCEPT !.attrs = DelAttr(@, q.r1.text), !.r2 = Clear(@), !.r1 = Put(Clear(@), c), !.cr1 = "KV_KEY"]
      BY <1>3, AlphabetAssumption DEF AttrWantVal, KeyChar, NameStart, Mark, White, Quote
    <2> DEFINE n == [q EXCEPT !.attrs = DelAttr(@, q.r1.text), !.r2 = Clear(@), !.r1 = Put(Clear(@), c), !.cr1 = "KV_KEY"]
    <2>2. Clear(q.r2) \in Registers /\ Put(Clear(q.r1), c) \in Registers
      BY RegisterTypes DEF Parsers
    <2>3. DelAttr(q.attrs, q.r1.text) \in SUBSET (Text \X Text)
      <3>1. q.attrs \in SUBSET (Text \X Text) /\ q.r1.text \in Text
        BY DEF Parsers, Registers
      <3> QED
        BY <3>1, AttrTypes
    <2>4. /\ n \in Parsers /\ n.stack = q.stack /\ n.status = q.status
          /\ n.cr1 = "KV_KEY" /\ n.ctx = q.ctx
      BY <2>2, <2>3 DEF Parsers, Phases
    <2> HIDE DEF n
    <2>5. Good(n)
      BY <2>4, <1>0, AttrStays
    <2> QED
      BY <2>1, <2>5 DEF n
  <1>4. CASE c \notin White \cup NameStart \cup {"="}
    <2>1. AttrWantVal(q, c) = RetToTag(q)
      BY <1>4 DEF AttrWantVal
    <2> QED
      BY <2>1, <1>0, RetToTagGood
  <1> QED
    BY <1>1, <1>2, <1>3, <1>4

\* A character of the name of an attribute
LEMMA AttrKeyGood ==
    ASSUME NEW q, Good(q), NEW c \in Char, q.ctx = "attr"
    PROVE  Good(AttrKey(q, c))
  <1> q \in Parsers
    BY DEF Good
  <1>0. q.stack = <<>> /\ q.status # "exit" /\ q.cr1 # "OBJ_CLOSING"
    BY DEF Good, Consistent
  <1>1. CASE c \in KeyChar
    <2>1. AttrKey(q, c) = [q EXCEPT !.r1 = Put(@, c)]
      BY <1>1, AlphabetAssumption DEF AttrKey, KeyChar, NameStart, Mark, White, Quote
    <2>2. Put(q.r1, c) \in Registers
      BY RegisterTypes DEF Parsers, Clear, Registers
    <2>3. [q EXCEPT !.r1 = Put(@, c)] \in Parsers
      BY <2>2 DEF Parsers, Phases
    <2> QED
      BY <2>1, <2>3, <1>0, AttrStays DEF Parsers
  <1>2. CASE c = "="
    <2>1. AttrKey(q, c) = [q EXCEPT !.cr1 = "KV_VAL"]
      BY <1>2, AlphabetAssumption DEF AttrKey, KeyChar, NameStart, Mark, White, Quote
    <2>2. [q EXCEPT !.cr1 = "KV_VAL"] \in Parsers
      BY DEF Parsers, Phases
    <2> QED
      BY <2>1, <2>2, <1>0, AttrStays DEF Parsers
  <1>3. CASE c \in White
    <2>1. AttrKey(q, c) = [q EXCEPT !.cr1 = "KV_WANT_VAL"]
      BY <1>3, AlphabetAssumption DEF AttrKey, KeyChar, NameStart, Mark, White, Quote
    <2>2. [q EXCEPT !.cr1 = "KV_WANT_VAL"] \in Parsers
      BY DEF Parsers, Phases
    <2> QED
      BY <2>1, <2>2, <1>0, AttrStays DEF Parsers
  <1>4. CASE c \notin KeyChar \cup White \cup {"="}
    <2>1. AttrKey(q, c) = q
      BY <1>4 DEF AttrKey
    <2> QED
      BY <2>1
  <1> QED
    BY <1>1, <1>2, <1>3, <1>4

\* Before a name
LEMMA AttrNextGood ==
    ASSUME NEW q, Good(q), NEW c \in Char, q.ctx = "attr"
    PROVE  Good(AttrNext(q, c))
  <1> q \in Parsers
    BY DEF Good
  <1>0. q.stack = <<>> /\ q.status # "exit" /\ q.cr1 # "OBJ_CLOSING"
    BY DEF Good, Consistent
  <1>1. CASE c \in NameStart
    <2>1. AttrNext(q, c) = [q EXCEPT !.r1 = Put(@, c), !.cr1 = "KV_KEY"]
      BY <1>1, AlphabetAssumption DEF AttrNext, KeyChar, NameStart, Mark, White, Quote
    <2>2. Put(q.r1, c) \in Registers
      BY RegisterTypes DEF Parsers, Clear, Registers
    <2>3. [q EXCEPT !.r1 = Put(@, c), !.cr1 = "KV_KEY"] \in Parsers
      BY <2>2 DEF Parsers, Phases
    <2> QED
      BY <2>1, <2>3, <1>0, AttrStays DEF Parsers
  <1>2. CASE c \in White
    <2>1. AttrNext(q, c) = q
      BY <1>2, AlphabetAssumption DEF AttrNext, KeyChar, NameStart, Mark, White, Quote
    <2> QED
      BY <2>1
  <1>3. CASE c \notin NameStart \cup White
    <2>1. AttrNext(q, c) = RetToTag(q)
      BY <1>3 DEF AttrNext
    <2> QED
      BY <2>1, <1>0, RetToTagGood
  <1> QED
    BY <1>1, <1>2, <1>3

\* x_parser_ctx_attr
LEMMA AttrGood ==
    ASSUME NEW q, Good(q), NEW c \in Char, q.ctx = "attr"
    PROVE  Good(AttrStep(q, c))
  BY AttrLavGood, AttrValGood, AttrWantValGood, AttrKeyGood, AttrNextGood DEF AttrStep

-----------------------------------------------------------------------------
(* One character, and every input. *)

\* The context that handles a character leaves a good parser.
LEMMA StepGood ==
    ASSUME NEW q, Good(q), NEW c \in Char
    PROVE  Good(Step(q, c))
  BY TxtGood, IdleGood, TagGood DEF Step

\* A parser that is reset inside the callback of a closing tag is the parser of
\* a closing tag still.
LEMMA ResetGood ==
    ASSUME NEW q, Good(q), q.ctx = "tag", q.cr1 = "OBJ_CLOSING"
    PROVE  Good([Reset(q) EXCEPT !.cr1 = q.cr1, !.ctx = q.ctx])
  <1>0. q \in Parsers
    BY DEF Good
  <1> DEFINE r == Reset(q)
             n == [r EXCEPT !.cr1 = q.cr1, !.ctx = q.ctx]
  <1>1. Clear(q.r1) \in Registers /\ Clear(q.r2) \in Registers
    BY <1>0 DEF Parsers, Clear, Registers
  <1>2. r \in Parsers /\ ~r.g2 /\ r.stack = <<>> /\ r.status = q.status
    BY <1>0, <1>1 DEF Reset, Parsers, Contexts, Phases
  <1> HIDE DEF r
  <1>3. /\ n \in Parsers
        /\ n.ctx = "tag" /\ n.cr1 = "OBJ_CLOSING"
        /\ ~n.g2 /\ n.stack = <<>> /\ n.status = q.status
    BY <1>0, <1>2 DEF Parsers
  <1>4. q.status # "exit"
    BY DEF Good, Consistent
  <1>5. Consistent(n)
    BY <1>3, <1>4 DEF Consistent
  <1> QED
    BY <1>3, <1>5 DEF Good, r

\* The callbacks are given texts and lists.
LEMMA ToldType ==
    ASSUME NEW q \in Parsers, NEW c \in Char
    PROVE  Told(q, c) \in Seq(Calls)
  <1>1. q.r0.text \in Text /\ q.attrs \in SUBSET (Text \X Text)
    BY DEF Parsers, Registers
  <1>2. <<[op |-> "text", c |-> c]>> \in Seq(Calls)
    BY DEF Calls
  <1>3. <<[op |-> "open", name |-> q.r0.text, attrs |-> q.attrs]>> \in Seq(Calls)
    BY <1>1 DEF Calls
  <1>4. <<[op |-> "close", name |-> q.r0.text]>> \in Seq(Calls)
    BY <1>1 DEF Calls
  <1> QED
    BY <1>2, <1>3, <1>4 DEF Told

IInv == Good(p) /\ StopsAtTag(p) /\ out \in Seq(Calls)

\* The contexts of attributes never stop the program.
LEMMA AttrStatus ==
    ASSUME NEW q \in Parsers, NEW c \in Char
    PROVE  Handed(q, c).status = q.status
  <1>1. /\ AttrLav(q, c).status = q.status /\ AttrVal(q, c).status = q.status
        /\ AttrWantVal(q, c).status = q.status
        /\ AttrKey(q, c).status = q.status /\ AttrNext(q, c).status = q.status
    BY DEF Parsers, AttrLav, AttrVal, AttrWantVal, AttrKey, AttrNext, Stored, RetToTag, Enter
  <1> QED
    BY <1>1 DEF Handed, AttrStep

\* A context that finds the parser running stops it only in an opening tag.
LEMMA StepStops ==
    ASSUME NEW q, Good(q), q.status = "ok", NEW c \in Char
    PROVE  StopsAtTag(Step(q, c))
  <1>0. q \in Parsers
    BY DEF Good
  <1>1. CASE q.ctx = "tag" /\ q.cr1 = "OBJ_OPENING"
    <2>1. Step(q, c) = TagOpening(q, c)
      BY <1>1 DEF Step, TagStep
    <2>2. \/ TagOpening(q, c) = [q EXCEPT !.status = "BUG"]
          \/ TagOpening(q, c).status = q.status
      BY <1>0 DEF TagOpening, Cleared, Parsers
    <2> QED
      BY <1>0, <1>1, <2>1, <2>2 DEF StopsAtTag, Parsers
  <1>2. CASE ~(q.ctx = "tag" /\ q.cr1 = "OBJ_OPENING")
    <2>1. /\ TxtStep(q, c).status = q.status /\ IdleStep(q, c).status = q.status
          /\ TagIni(q, c).status = q.status /\ TagClosing(q, c).status = q.status
      BY <1>0 DEF Parsers, TxtStep, IdleStep, TagIni, TagClosing, Cleared, Enter
    <2>2. q.ctx = "tag" => q.cr1 \in {"INI", "OBJ_CLOSING"}
      BY <1>2 DEF Good, Consistent
    <2>3. Step(q, c).status = q.status
      BY <1>2, <2>1, <2>2 DEF Step, TagStep
    <2> QED
      BY <2>3 DEF StopsAtTag
  <1> QED
    BY <1>1, <1>2

\* A new parser is good.
LEMMA InitIInv == Init => IInv
  <1> SUFFICES ASSUME Init PROVE IInv
    OBVIOUS
  <1>1. NewRegister \in Registers
    BY DEF NewRegister, Registers, Text
  <1>2. p \in Parsers
    BY <1>1 DEF Init, Parsers, Contexts, Phases
  <1>3. Consistent(p) /\ StopsAtTag(p)
    BY DEF Init, Consistent, StopsAtTag
  <1>4. out \in Seq(Calls)
    BY DEF Init
  <1> QED
    BY <1>2, <1>3, <1>4 DEF IInv, Good

\* A character keeps the invariant: the parser a character is handed to is
\* good, and so is what its context makes of it.
LEMMA PutcIInv ==
    ASSUME IInv, NEW c \in Char, Putc(c)
    PROVE  IInv'
  <1> DEFINE q == Handed(p, c)
             done == p.ctx = "attr" /\ q.ctx # "tag"
             told == IF done THEN <<>> ELSE Told(q, c)
             next == IF done THEN q ELSE Step(q, c)
             again == [Reset(q) EXCEPT !.cr1 = q.cr1, !.ctx = q.ctx]
  <1>1. Good(p) /\ out \in Seq(Calls)
    BY DEF IInv
  <1>2. Good(q)
    BY <1>1, AttrGood DEF Handed
  <1>3. q \in Parsers /\ q.status = "ok"
    <2>1. p \in Parsers /\ p.status = "ok"
      BY <1>1 DEF Good, Putc
    <2> QED
      BY <1>2, <2>1, AttrStatus DEF Good
  <1>4. /\ out' = out \o told
        /\ \/ p' = next
           \/ told # <<>> /\ told[1].op = "close" /\ p' = Step(again, c)
    BY DEF Putc
  <1> HIDE DEF q
  <1>5. told \in Seq(Calls)
    BY <1>3, ToldType
  <1>6. out' \in Seq(Calls)
    BY <1>1, <1>4, <1>5
  <1>7. CASE p' = next
    <2>1. Good(next)
      BY <1>2, StepGood
    <2>2. StopsAtTag(next)
      BY <1>2, <1>3, StepStops DEF StopsAtTag
    <2> QED
      BY <2>1, <2>2, <1>6, <1>7 DEF IInv, Good, Consistent, StopsAtTag
  <1>8. CASE told # <<>> /\ told[1].op = "close" /\ p' = Step(again, c)
    <2>1. q.ctx = "tag" /\ q.cr1 = "OBJ_CLOSING"
      BY <1>8 DEF Told
    <2>2. Good(again)
      BY <1>2, <2>1, ResetGood
    <2>3. again.status = "ok"
      BY <1>3 DEF Reset
    <2> HIDE DEF again
    <2>4. Good(Step(again, c)) /\ StopsAtTag(Step(again, c))
      BY <2>2, <2>3, StepGood, StepStops
    <2> QED
      BY <2>4, <1>6, <1>8 DEF IInv, Good, Consistent, StopsAtTag
  <1> QED
    BY <1>4, <1>7, <1>8

\* The invariant holds whatever is written to the parser.
THEOREM ParserIInv == Spec => []IInv
  <1>1. IInv /\ [Next]_vars => IInv'
    <2> SUFFICES ASSUME IInv, [Next]_vars PROVE IInv'
      OBVIOUS
    <2>1. CASE Next
      BY <2>1, PutcIInv DEF Next
    <2>2. CASE UNCHANGED vars
      BY <2>2 DEF vars, IInv, Good, Consistent, StopsAtTag
    <2> QED
      BY <2>1, <2>2
  <1> QED
    BY InitIInv, <1>1, PTL DEF Spec

\* For every alphabet and every input the registers hold characters and the
\* callbacks are given texts and attribute lists.
THEOREM ParserTypeOK == Spec => []TypeOK
  <1>1. IInv => TypeOK
    BY DEF IInv, Good, TypeOK
  <1> QED
    BY <1>1, ParserIInv, PTL

\* For every alphabet and every input, however malformed, the parser never
\* reaches the exit() of x_parser_ctx_tag, never pops what it has not pushed,
\* and meets BUG() nowhere but in the name of an opening tag or behind its
\* attributes.
THEOREM ParserDisciplined == Spec => []Disciplined
  <1>1. IInv => Disciplined
    BY DEF IInv, Good, Disciplined
  <1> QED
    BY <1>1, ParserIInv, PTL

=============================================================================
