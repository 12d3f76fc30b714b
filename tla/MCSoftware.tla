----------------------------- MODULE MCSoftware -----------------------------
(***************************************************************************)
(* The C code and the script on the examples of the standard and on keys   *)
(* and texts of equal bytes.                                               *)
(***************************************************************************)
EXTENDS Software, FipsLongKeys

MCCalls == UNION {
    [fn : {f},
     key : {InWords(key) : key \in SampleKeys(KeySize(f))},
     text : {InWords(text) : text \in SampleTexts}] : f \in Functions}

-----------------------------------------------------------------------------
(***************************************************************************)
(* The ciphertexts of the examples in appendix C of the standard.          *)
(***************************************************************************)
KnownAnswersGolden ==
    LET Nk == KeySize(fn)
    IN  Returned /\ call.key = InWords(KeyC(Nk)) /\ call.text = InWords(TextC) =>
          state = InWords(CipherC(Nk))

(***************************************************************************)
(* The ciphertexts of the examples in appendix C of the standard.          *)
(***************************************************************************)
KnownAnswersPython ==
    LET Nk == Len(py_call.key) \div 4
    IN  py_round > Py!Nr /\ py_call = [key |-> KeyC(Nk), text |-> TextC] =>
          Py!output = CipherC(Nk)
=============================================================================
