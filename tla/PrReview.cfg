\* Two users; approval takes version 8, so a comment is also reopened on a way that stops short of it.
\* Two events of GitHub: the second has the version of the first snapshot of the review.
CONSTANTS
    Users = {u1, u2}
    None = None
    MaxVersion = 8
    MaxWebhook = 2
SYMMETRY SymmetricUsers
SPECIFICATION Spec
INVARIANTS TypeOK VersionNamesContent EveryVersionAnnounced OneAuthor
PROPERTY ImplementsReviewRounds
