------------------------------- MODULE MCDKIM -------------------------------
(* Short messages of every kind. *)
EXTENDS DKIM

CONSTANTS MaxText, MaxHeader

Texts(n)  == UNION {[1..k -> {"x", "sp", "tab", "crlf", "lf"}] : k \in 0..n}
Values(n) == UNION {[1..k -> {"x", "sp", "tab", "nbsp"}] : k \in 1..n}

\* From, To and Subject, and no Cc or one.
Heads(from, to, subject, cc) ==
  {[name \in {"from", "to", "subject"} |->
      CASE name = "from" -> f [] name = "to" -> t [] OTHER -> s] :
        f \in from, t \in to, s \in subject}
  \union
  {[name \in {"from", "to", "subject", "cc"} |->
      CASE name = "from" -> f [] name = "to" -> t [] name = "cc" -> c [] OTHER -> s] :
        f \in from, t \in to, s \in subject, c \in cc}

Word == {<<"x">>}

\* Every body beside every shorter HTML, every HTML beside a body of one token,
\* and all kinds of headers on two bodies.
Mails ==
  [head : Heads(Word, Word, Word, Word), body : Texts(MaxText), html : Texts(MaxText - 1)]
  \union
  [head : Heads(Word, Word, Word, Word), body : Texts(1), html : Texts(MaxText)]
  \union
  [head : Heads(Values(1), Values(1), Values(MaxHeader), Values(1)),
   body : Word, html : {<<>>, <<"x">>}]
=============================================================================
