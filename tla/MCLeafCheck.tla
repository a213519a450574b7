----------------------------- MODULE MCLeafCheck -----------------------------
(* A first page of up to four characters and a second one of up to two, both *)
(* stripped, over two letters and a blank; quotes of up to three.            *)
EXTENDS LeafCheck

Texts(n)    == UNION {[1..k -> Token] : k \in 0..n}
Stripped(n) == {t \in Texts(n) : t = <<>> \/ (t[1] # Blank /\ Last(t) # Blank)}

MCDocument == {<<p, q>> : p \in Stripped(4), q \in Stripped(2)}
MCEvidence == Texts(3) \cup {None}
MCConfig   == {[max_tokens |-> m[1], overlap_tokens |-> m[2]] :
                  m \in {<<2, 1>>, <<3, 1>>, <<2, 2>>}}
=============================================================================
