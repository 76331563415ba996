-------------------------- MODULE MCServerSession --------------------------
EXTENDS ServerSession

Medium(resource, port) == [resource |-> resource, port |-> port]
Known == Medium("known", TRUE)
Offer(control, audio) == [control |-> control, audio |-> audio]

\* an unknown medium before a known one
Unknown ==
    {Offer(<<Known>>, 0), Offer(<<Known, Medium("unknown", TRUE), Known>>, 0),
     Offer(<<Known, Known, Known>>, 0)}

\* every kind of medium, fewer media and fewer slots than before
Mixed ==
    {Offer(<<Known>>, 1), Offer(<<Known, Known>>, 2),
     Offer(<<Known, Medium("unplugged", TRUE)>>, 0),
     Offer(<<Medium("known", FALSE), Medium("unknown", TRUE)>>, 1)}
=============================================================================
