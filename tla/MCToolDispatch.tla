--------------------------- MODULE MCToolDispatch ---------------------------
\* Up to three calls over two resource keys, with ids that may repeat.
EXTENDS ToolDispatch

CONSTANTS a, b, idA, idB, idC

MCIds == {idA, idB, idC}
MCKeys == {a, b}

\* Which calls share an id is all that matters of the ids, and which share a
\* key is all that matters of the keys: the first call has idA and key a.
MCIdLists == {<<idA>>, <<idA, idA>>, <<idA, idB>>, <<idA, idA, idB>>,
              <<idA, idB, idA>>, <<idA, idB, idB>>, <<idA, idB, idC>>}

MCRequests ==
  UNION {{[i \in DOMAIN ids |-> [id |-> ids[i], key |-> keys[i], readOnly |-> ro[i]]] :
            keys \in {f \in [DOMAIN ids -> MCKeys] : f[1] = a},
            ro \in [DOMAIN ids -> BOOLEAN]} : ids \in MCIdLists}

\* Every resource is spelled in one way, or both keys mean one file.
MCOneSpelling == [k \in MCKeys |-> k]
MCTwoSpellings == [k \in MCKeys |-> a]
=============================================================================
