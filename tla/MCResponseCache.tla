--------------------------- MODULE MCResponseCache ---------------------------
(* Requests that differ in the order of names, in the parameter the names are    *)
(* given for, in the last day, and in a separator within a value.                *)
EXTENDS ResponseCache, TLC

Asks(dateTo, region, district) == [dateTo |-> dateTo, region |-> region, district |-> district]

Lists(names) == [lists |-> <<names>>, rest |-> <<>>]

\* district=a%26region%3Da,b.
Looks(a, list) == <<[lists |-> <<<<a>>>>, rest |-> <<[name |-> "region", list |-> list]>>]>>

\* The last two have one key, and so have the first two if the names of the
\* parameters are left out.
MCRequests ==
  {Asks(0, <<Lists(<<"a", "b">>)>>, <<>>), Asks(0, <<>>, <<Lists(<<"b", "a">>)>>),
   Asks(None, <<Lists(<<"b", "a">>)>>, <<Lists(<<"a">>)>>), Asks(None, <<>>, Looks("a", <<"a", "b">>))}

Symmetric == Permutations(Threads)

==============================================================================
