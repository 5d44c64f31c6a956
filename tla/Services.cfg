\* One asset and two cycles; two cluster tasks; two events, two payloads and two
\* commands; one message and two requests; two people and two publishers; two
\* callers; one session and two handlers; two cycles; one company and two leads;
\* two keywords and two registrars; two commands on two variants; two runs of two feeds;
\* two queries; three agents of the mesh; three cycles of passive income and one
\* newsletter; two renders of two packages, the second during the first's assembly.
\* Three calls of the execution core, with one objective of each kind.
\* Two requests of the backend and one dashboard.
\* Two imports of three contracts, the first of them broken, and a scrape of three
\* solicitations, two of them without an id.
\* Two runs of two programs and two topics, one of which has a program's name.
\* Three daily runs on three stories, two readers and a sender, two weekly runs on three
\* products, three days with a window of two.
\* Two splits of two lines, built twice; two runs of two epochs whose grades are 1 or 2.
\* Two products of which one has a file, listed by a deploy, a listing and a sweep; two
\* designs pushed twice, of which a page shows one.
\* Two calls of two tries; three digests of which each second has a sponsor; three
\* mails for two addresses, two at a time; a post of a thread of two.
CONSTANTS
  Node = {n1}
  Cycle = {1, 2}
  MaxRetries = 2
  FailureThreshold = 2
  SuccessThreshold = 2
  Task = {t1, t2}
  TaskRetries = 2
  LastRow = 3
  EdgeEvent = {1, 2}
  EdgePayload = {p1, p2}
  NoPayload = NoPayload
  Command = {1, 2}
  MaxIngests = 2
  Message = {m1}
  Request = {r1, r2}
  People = 2
  Signup = {s1}
  Publisher = {1, 2}
  Text = {"a", "b"}
  Caller = {1, 2}
  Session = {s2}
  Handler = {1, 2}
  Run = {1, 2}
  Company = {c1}
  MaxLeads = 2
  Amount = {1, 2}
  Goal = 3
  Keywords = 2
  Floor = 1
  FirstWeight = 2
  Ceiling = 3
  Cutoff = 4
  Registrar = {1, 2}
  Wired = TRUE
  OfferRequests = 3
  FewFaults = 1
  Commander = {1, 2}
  Variants = 2
  Measured = {0, 1}
  MinSamples = 1
  ExperimentRequests = 6
  Process = {1, 2}
  Feed = {1, 2}
  Query = {1, 2}
  Selected = {"newsletter_editor", "independent_critic", "delivery_controller"}
  Threshold = 2
  IncomeCycle = {1, 2, 3}
  Briefing = {1}
  Render = {1, 2}
  Package = {1, 2}
  HeadStart = 5
  CoreCall = {1, 2, 3}
  Objective = {"plain", "risky", "unserved"}
  Risky = {"risky"}
  Unserved = {"unserved"}
  Visit = {1, 2}
  Screen = {d1}
  Contract = {1, 2, 3}
  Broken = {1}
  Notice = {1, 2, 3}
  Nameless = {2, 3}
  Timeline = {50, 100}
  Import = {i1, i2}
  Scrape = {sc1}
  Fixed = {1, 2}
  Topic = {3, 4}
  Namesake = {4}
  Compilation = 9
  Production = {1, 2}
  Reel = {1, 2}
  Story = {1, 2, 3}
  Akin = {{1, 3}}
  PerIssue = 1
  Daily = {1, 2, 3}
  Reader = {a, b}
  Sender = {s}
  Weekly = {1, 2}
  Guide = {1, 2, 3}
  Days = 3
  Window = 2
  Split = {train, validation}
  Line = {1, 2}
  Builder = {1, 2}
  Trainee = {1, 2}
  Epochs = 2
  Grade = {1, 2}
  PassMark = 2
  Item = {1, 2}
  WithFile = {1}
  Deploy = {"deploy"}
  Listing = {"listing"}
  Sweep = {"sweep"}
  Shirt = {1, 2}
  Pusher = {1, 2}
  OnPage = 1
  Ring = {1, 2}
  Tries = 2
  Recovery = 2
  Edition = {1, 2, 3}
  Every = 2
  Missive = {l1, l2, l3}
  Address = {to, cc}
  AtOnce = 2
  Replies = 2
  MaxRequests = 5
  MaxFaults = 2
  EdgeFaults = 1
SPECIFICATION Spec
INVARIANTS
  TypeOK
  EffectsOnce
  NothingLost
PROPERTIES
  EveryItemSettles
CHECK_DEADLOCK FALSE
