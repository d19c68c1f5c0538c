----------------------------- MODULE MCPorteurs -----------------------------
EXTENDS PorteursConversations

Version(l, c, t, r) == [longueur |-> l, champs |-> c, texte |-> t, reste |-> r]

\* The message of key 1 in the versions that differ in one thing compared, or
\* in nothing compared; the message of key 2 alone; both messages.
MCMessages ==
  {<<v, Rien>> : v \in {Version(1, 1, 0, 0), Version(1, 1, 0, 1),
                        Version(1, 2, 0, 0), Version(2, 1, 0, 0)}}
    \cup {<<Rien, Version(1, 1, 0, 0)>>,
          <<Version(1, 1, 1, 0), Version(1, 1, 0, 0)>>}

MCCopies ==
  [title : {0, 1}, createdAt : {1}, updatedAt : {1, 2}, model : {0},
   pinned : {FALSE}, messages : MCMessages]
=============================================================================
