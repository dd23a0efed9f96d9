------------------------------ MODULE MCLiveHost ------------------------------
(* Two files.  The entry's function is edited, and then removed; the other   *)
(* file is broken for a while, has its struct twice, and then changed.       *)
EXTENDS LiveHost

Form(file, head, name, tokens) ==
    [file |-> file, head |-> head, name |-> name, tokens |-> tokens, target |-> ""]

Main == Form(1, "defn", "main", "a")
Update(tokens) == Form(1, "defn", "update", tokens)
Ball(tokens) == Form(2, "defstruct", "Ball", tokens)

MCHistory == <<
    <<[loads |-> TRUE, forms |-> {Main, Update("a")}],
      [loads |-> TRUE, forms |-> {Main, Update("b")}],
      [loads |-> TRUE, forms |-> {Main}]>>,
    <<[loads |-> TRUE, forms |-> {Ball("a")}],
      [loads |-> FALSE, forms |-> {}],
      [loads |-> TRUE, forms |-> {Ball("a"), Ball("b")}],
      [loads |-> TRUE, forms |-> {Ball("b")}]>> >>
=============================================================================
