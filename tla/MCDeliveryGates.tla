---------------------------- MODULE MCDeliveryGates ----------------------------
EXTENDS DeliveryGates

\* What an attempt at Step s for a ticket of one of these kinds comes to.
Plain(s, kinds, c) ==
    [at |-> s, of |-> kinds, code |-> c, found |-> {}, gap |-> FALSE, defect |-> "none", asks |-> FALSE]
Finds(s, kinds, c, found) == [Plain(s, kinds, c) EXCEPT !.found = found]
Finding(c, g) == [category |-> c, target |-> g]

MCCodes == {"missing", "tests", "quality", "provider", "stalled", "not replayed", "contract invalid", "replay miss"}
MCHappens ==
    {Plain(1, {"bug"}, "stalled"), Plain(1, {"bug"}, "replay miss"),
     [Plain(1, {"story", "contract"}, "quality") EXCEPT !.gap = TRUE],
     Plain(2, {"correction"}, "provider"),
     Finds(2, {"bug"}, "quality", {Finding("quality-shortfall", 1)}),
     Finds(2, {"story"}, "contract invalid", {Finding("deliverable-defect", 1)}),
     Plain(2, {"bug"}, "tests"),
     [Plain(3, {"correction"}, "tests") EXCEPT !.defect = "role"],
     Plain(3, {"story"}, "tests"),
     Finds(3, {"story"}, "tests", {Finding("product-defect", 1), Finding("product-defect", 2)}),
     Plain(4, {"correction"}, "not replayed"),
     Finds(4, {"correction"}, "tests", {Finding("product-defect", 1)}),
     [Plain(2, {"story"}, "tests") EXCEPT !.asks = TRUE],
     Finds(4, {"story"}, "quality", {Finding("change-request", 1)})}
====
