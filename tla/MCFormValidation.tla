---------------------------- MODULE MCFormValidation ----------------------------
(* Forms of two fields for FormValidation.                                 *)
EXTENDS FormValidation

NameAndMail == {"name", "mail"}
ShortTexts == [name |-> {0, 1, 2}, mail |-> {0, 2}]

Text(val) == [checkbox |-> FALSE, val |-> val]
NoParams == <<>>
Url == [url |-> "/check"]

\* Both fields asked about at the server; one of them; none.
ThreeForms ==
  {[name |-> Text([required |-> NoParams, remote |-> Url]), mail |-> Text([remote |-> Url])],
   [name |-> Text([required |-> NoParams, remote |-> Url]),
    mail |-> [checkbox |-> TRUE, val |-> [required |-> NoParams]]],
   [name |-> Text([required |-> NoParams, length |-> [max |-> 2, min |-> 2]]),
    mail |-> Text([required |-> NoParams, email |-> NoParams])]}
=============================================================================
