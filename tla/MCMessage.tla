----------------------------- MODULE MCMessage -----------------------------
(* Model checking instance of Message: one item of each way of putting, two of the same *)
(* shape where writing over one is of interest, empty strings, a string that cannot be  *)
(* put; two items of eight bytes do not fit.                                            *)
EXTENDS Message

One(type, value) == [type |-> type, array |-> FALSE, elements |-> <<value>>]
Many(type, elements) == [type |-> type, array |-> TRUE, elements |-> elements]

MCItems ==
    { One("UInt8", <<181>>), One("Int16", <<255, 128>>), One("Int16", <<1, 254>>),
      One("Double", <<1, 2, 3, 4, 5, 6, 7, 240>>), One("Bool", <<1>>),
      Many("Bool", <<<<1>>, <<0>>, <<1>>>>),
      Many("UInt8", <<<<7>>, <<9>>>>), Many("UInt8", <<<<8>>, <<6>>>>),
      Many("Int32", <<<<1, 2, 3, 4>>, <<255, 254, 253, 252>>>>),
      One("String", <<195, 169>>), One("String", <<>>), Many("String", <<<<72>>, <<>>>>) }
=============================================================================
