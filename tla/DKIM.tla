-------------------------------- MODULE DKIM --------------------------------
(***************************************************************************)
(* What becomes of a message's text on its way out: composeMessage and     *)
(* signDKIM (internal/relay), the conversion net/smtp makes on the         *)
(* wire, and a receiver that checks the signature as RFC 6376 has it for   *)
(* the c=relaxed/relaxed that signDKIM announces.                          *)
(*                                                                         *)
(* A text is a sequence of tokens: "x" for what is visible, a space, a     *)
(* tab, a no-break space, a line end CRLF and a bare LF (which a JSON "\n" *)
(* is).  No text has a bare CR, no header a line end.  A hash stands for   *)
(* what it is the hash of.                                                 *)
(***************************************************************************)
EXTENDS Naturals, Sequences, SequencesExt

CONSTANT
  Mail   \* what clients may send: [head, body, html], headers by name and two
         \* texts; without body_html, html is empty

ASSUME DKIMAssumption ==
  \A m \in Mail :
    /\ m.body \in Seq({"x", "sp", "tab", "crlf", "lf"})
    /\ m.html \in Seq({"x", "sp", "tab", "crlf", "lf"})
    /\ DOMAIN m.head \in {{"from", "to", "subject"}, {"from", "to", "subject", "cc"}}
    /\ \A name \in DOMAIN m.head : m.head[name] \in Seq({"x", "sp", "tab", "nbsp"})

VARIABLES
  mail,    \* what the client sent
  stage,   \* "queued", "signed", "sent" or "checked"
  raw,     \* the message: [headers, body]
  bh,      \* the canonical body that bh= is the hash of
  data,    \* the canonical headers that b= signs
  verdict  \* what the receiver says of the signature

vars == <<mail, stage, raw, bh, data, verdict>>

WSP == {"sp", "tab"}

-----------------------------------------------------------------------------
(* composeMessage.  The headers it writes that signDKIM may sign, by name: *)
(* the client's (the recipients of To or Cc joined to one text) and two of *)
(* its own.  A header that parseHeaders does not find, cc without a Cc, is *)
(* not signed.                                                             *)

\* Each part of a multipart body has its boundary, a header and an empty line.
Part(text) == <<"x", "crlf", "x", "crlf", "crlf">> \o text \o <<"crlf">>

ComposeBody(m) ==
  IF m.html # <<>> THEN Part(m.body) \o Part(m.html) \o <<"x", "crlf">>
                   ELSE m.body \o <<"crlf">>

ComposeHeaders(m) ==
  [name \in DOMAIN m.head \union {"date", "message-id"} |->
     <<"sp">> \o IF name \in DOMAIN m.head THEN m.head[name] ELSE <<"x">>]

-----------------------------------------------------------------------------
(* signDKIM. *)

\* strings.Split(body, "\r\n")
Lines(text) ==
  FoldLeft(LAMBDA ls, t : IF t = "crlf" THEN Append(ls, <<>>)
                          ELSE [ls EXCEPT ![Len(ls)] = Append(@, t)],
           << <<>> >>, text)

\* The index of the last element of s that is outside of S, or 0.
LastOutside(s, S) ==
  CHOOSE i \in 0..Len(s) : /\ i # 0 => s[i] \notin S
                           /\ \A j \in (i + 1)..Len(s) : s[j] \in S

TrimRight(line) == SubSeq(line, 1, LastOutside(line, WSP))

\* Slip: line ends are trimmed, trailing empty lines are not.
CanonicalizeBodyUnstripped(text) ==
  LET lines == [i \in DOMAIN Lines(text) |-> TrimRight(Lines(text)[i])]
  IN  FoldLeft(LAMBDA out, l : out \o l \o <<"crlf">>, <<>>, lines)

\* Lines are trimmed, empty ones at the end removed, the rest joined.  There is
\* a line end behind the last one, even if there is no line.
CanonicalizeBody(text) ==
  LET lines == [i \in DOMAIN Lines(text) |-> TrimRight(Lines(text)[i])]
      kept  == SubSeq(lines, 1, LastOutside(lines, {<<>>}))
  IN  IF kept = <<>> THEN <<"crlf">>
      ELSE FoldLeft(LAMBDA out, l : out \o l \o <<"crlf">>, <<>>, kept)

\* Slip: runs of white space are trimmed at the ends only.
RelaxHeaderValueEnds(value) ==
  LET end == LastOutside(value, {"sp", "tab", "nbsp"})
      begin == Len(value) - LastOutside(Reverse(value), {"sp", "tab", "nbsp"}) + 1
  IN  SubSeq(value, begin, end)

\* strings.TrimSpace, strings.Fields and Join: each run of white space, which
\* for Go has U+00A0 in it, becomes one space between two fields.
RelaxHeaderValue(value) ==
  FoldLeft(LAMBDA out, i :
             IF value[i] \in {"sp", "tab", "nbsp"} THEN out
             ELSE IF out # <<>> /\ i > 1 /\ value[i - 1] \in {"sp", "tab", "nbsp"}
               THEN out \o <<"sp", value[i]>>
             ELSE Append(out, value[i]),
           <<>>, [i \in 1..Len(value) |-> i])

-----------------------------------------------------------------------------
(* The receiver, from RFC 6376, 3.4.2 and 3.4.4, position by position.     *)

\* Some character of the same line follows position i.
MoreInLine(text, i) ==
  \E j \in (i + 1)..Len(text) :
    text[j] \notin WSP \union {"crlf"} /\ \A k \in i..j : text[k] # "crlf"

LastVisible(text) == LastOutside(text, WSP \union {"crlf"})

\* What is left of a body: of a run of white space the first one, if it is not
\* at the end of a line; line ends up to the one of the last visible line.
Stays(text, i) ==
  IF text[i] \in WSP
    THEN (i = 1 \/ text[i - 1] \notin WSP) /\ MoreInLine(text, i)
  ELSE IF text[i] = "crlf"
    THEN LastVisible(text) # 0 /\
         \A j \in (LastVisible(text) + 1)..(i - 1) : text[j] # "crlf"
  ELSE TRUE

Relaxed(text) ==
  FoldLeft(LAMBDA out, i :
             IF ~Stays(text, i) THEN out
             ELSE Append(out, IF text[i] \in WSP THEN "sp" ELSE text[i]),
           <<>>, [i \in 1..Len(text) |-> i])

\* A header's value is one line; white space at its beginning goes, too.
RelaxedHeader(value) ==
  LET line == Relaxed(value)
  IN  IF line # <<>> /\ line[1] = "sp" THEN Tail(line) ELSE line

\* SendMail writes through a textproto.DotWriter: a bare LF becomes CRLF.
OnTheWire(text) == [i \in DOMAIN text |-> IF text[i] = "lf" THEN "crlf" ELSE text[i]]

-----------------------------------------------------------------------------
Init ==
  /\ mail \in Mail
  /\ stage = "queued"
  /\ raw = [headers |-> <<>>, body |-> <<>>]
  /\ bh = <<>>
  /\ data = <<>>
  /\ verdict = "none"

\* composeMessage and signDKIM, once for all recipients.
Sign ==
  /\ stage = "queued"
  /\ stage' = "signed"
  /\ raw' = [headers |-> ComposeHeaders(mail), body |-> ComposeBody(mail)]
  /\ bh' = CanonicalizeBody(raw'.body)
  /\ data' = [name \in DOMAIN raw'.headers |-> RelaxHeaderValue(raw'.headers[name])]
  /\ UNCHANGED <<mail, verdict>>

\* SendMail.
Transmit ==
  /\ stage = "signed"
  /\ stage' = "sent"
  /\ raw' = [raw EXCEPT !.body = OnTheWire(@)]
  /\ UNCHANGED <<mail, bh, data, verdict>>

\* The receiver computes both and compares.
Verify ==
  /\ stage = "sent"
  /\ stage' = "checked"
  /\ verdict' = IF /\ bh = Relaxed(raw.body)
                   /\ data = [name \in DOMAIN raw.headers |-> RelaxedHeader(raw.headers[name])]
                THEN "pass" ELSE "fail"
  /\ UNCHANGED <<mail, raw, bh, data>>

Next == Sign \/ Transmit \/ Verify

Spec == Init /\ [][Next]_vars

-----------------------------------------------------------------------------
(* Properties. *)

\* White space inside of a line that relaxed canonicalization would change.
Run(text) ==
  \E i \in DOMAIN text :
    /\ text[i] \in WSP
    /\ MoreInLine(OnTheWire(text), i)
    /\ text[i] = "tab" \/ (i > 1 /\ text[i - 1] \in WSP)

\* A message whose signature survives: in both texts lines end in CRLF and words
\* are one space apart, the body has something visible, and no header of the
\* client's has a no-break space.
Plain(m) ==
  /\ \A text \in {m.body, m.html} : ~Run(text) /\ \A i \in DOMAIN text : text[i] # "lf"
  /\ m.html # <<>> \/ \E i \in DOMAIN m.body : m.body[i] = "x"
  /\ \A name \in DOMAIN m.head : \A i \in DOMAIN m.head[name] : m.head[name][i] # "nbsp"

\* The receiver accepts the signature of a plain message, and of no other: at
\* every boundary (empty text and lines, white space at either end, several
\* line ends at the end) what canonicalizeBody and relaxHeaderValue hash is
\* what the receiver hashes.
VerifiesIffPlain == stage = "checked" => (verdict = "pass" <=> Plain(mail))
=============================================================================
