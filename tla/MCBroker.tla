------------------------------- MODULE MCBroker -------------------------------
\* Small instances of Broker: a request that is right, and one for every check
\* that refuses it.
EXTENDS Broker

SmallLimits == [bytes |-> 2, depth |-> 1, string |-> 1, items |-> 1, tokens |-> 1,
                messages |-> 1, tools |-> 1]
Chat == [json |-> TRUE, fields |-> "exact", depth |-> 1, string |-> 1, items |-> 1,
         model |-> "kimi-for-coding", stream |-> TRUE, usage |-> TRUE, tokens |-> 1,
         messages |-> 1, tools |-> 0, cacheKey |-> TRUE, thinking |-> TRUE]
Good == [command |-> "POST", loopback |-> TRUE, path |-> "chat",
         authorizations |-> <<"lease">>, types |-> <<"json">>, encodings |-> <<>>,
         length |-> 2, body |-> 2, chat |-> Chat]
SomeRequests ==
  {Good, [Good EXCEPT !.authorizations = <<"old">>], [Good EXCEPT !.length = 3],
   [Good EXCEPT !.body = 1], [Good EXCEPT !.chat.tokens = 2]}
===============================================================================
