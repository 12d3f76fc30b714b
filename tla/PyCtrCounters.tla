--------------------------- MODULE PyCtrCounters ---------------------------
(***************************************************************************)
(* PyCtr with a history variable: the halves of the counter that encrypt   *)
(* has used in the message so far.                                         *)
(***************************************************************************)
EXTENDS PyCtr

VARIABLE used

countedVars == <<ctrVars, used>>

CountedInit == CtrInit /\ used = {}

CountedNext ==
    /\ CtrNext
    /\ used' = IF encrypt THEN {}
               ELSE IF EncryptBlock THEN used \cup {<<encrypt_high, low>>}
               ELSE used

CountedSpec == CountedInit /\ [][CountedNext]_countedVars

-----------------------------------------------------------------------------
(***************************************************************************)
(* encrypt goes on counting past Half: up to the range of both halves no   *)
(* block of a message has the counter block of another one, which would    *)
(* mask two pieces of text with the same bytes.                            *)
(***************************************************************************)
CountersDiffer ==
    [][EncryptBlock /\ Len(text) <= Half * Half * blockSize
         => <<encrypt_high, low>> \notin used]_countedVars
=============================================================================
