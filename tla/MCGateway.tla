----------------------------- MODULE MCGateway ------------------------------
(***************************************************************************)
(* Instances of Gateway for TLC: a policy with one entity type per action, *)
(* a few requests whose bodies bring the interesting cases, two possible   *)
(* namespaces and a provider with a few words of its own.                  *)
(***************************************************************************)
EXTENDS Gateway

MCPolicy ==
    [e \in {"PERSON", "IBAN_CODE", "CREDIT_CARD", "DATE_TIME"} |->
        CASE e = "PERSON"      -> "tokenize"
          [] e = "IBAN_CODE"   -> "redact"
          [] e = "CREDIT_CARD" -> "block"
          [] e = "DATE_TIME"   -> "allow"]

\* alice: two persons, one of them twice, and an IBAN.  bob: a person and a
\* token copied from an earlier answer.  carol: a card number.  dave: a date.
MCBody ==
    [r \in {"alice", "bob", "carol", "dave"} |->
        CASE r = "alice" -> << Text("PERSON", "ann"), Text("PERSON", "art"),
                               Text("IBAN_CODE", "gb1"), Text("PERSON", "ann") >>
          [] r = "bob"   -> << Text("PERSON", "ben"), Token("PERSON", "N1", 1) >>
          [] r = "carol" -> << Text("PERSON", "cat"), Text("CREDIT_CARD", "4111") >>
          [] r = "dave"  -> << Text("DATE_TIME", "may"), Text("plain", "hello") >>]

\* A person and a card number the provider invents.
MCInvented == {Text("PERSON", "zoe"), Text("CREDIT_CARD", "4222")}

\* Text that ends in one half of a surrogate pair.
MCUnencodable == {Text("plain", "lone surrogate")}
MCInventedAny == MCInvented \cup MCUnencodable
=============================================================================
