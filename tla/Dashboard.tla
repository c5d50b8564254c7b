------------------------------ MODULE Dashboard ------------------------------
(***************************************************************************)
(* The screens of the web front end as the query cache sees them: the keys *)
(* each mounts, and for each mutation the keys whose answer it changes and *)
(* the keys its onSuccess tells.  "changes" is what the API does, as far as *)
(* the keys go that the page itself mounts or the one it moves on to; what *)
(* a third page still has in its cache is not said.  "told", "seeds",      *)
(* "goes" and "onError" are the page's code.  A key stands for its family: *)
(* invalidateQueries matches by prefix.  Searches, the options of a dialog *)
(* and the progress of a batch are queries of their own, left out here.    *)
(***************************************************************************)
Stay == "stay"

Tells(changes, told) ==
    [changes |-> changes, told |-> told, seeds |-> {}, onError |-> {}, goes |-> Stay]
Keeps(keys) == Tells(keys, keys)
Seeding(keys) == [Tells(keys, {}) EXCEPT !.seeds = keys]
OnError(effect, keys) == [effect EXCEPT !.onError = keys]
Then(effect, next) == [effect EXCEPT !.goes = next]

Screen(reads, does) == [reads |-> reads, does |-> does]
Nothing == [none |-> Tells({}, {})]
\* useActiveOrg(), on every page of an organizer.
OrganizerScreen(reads, does) == Screen({"organizations"} \cup reads, does)

-----------------------------------------------------------------------------
(* The super admin's pages. *)
AdminBlogCategories ==
    Screen({"admin-blog-categories"},
           [save |-> Keeps({"admin-blog-categories"}), remove |-> Keeps({"admin-blog-categories"})])
AdminHome == Screen({"admin-plans", "admin-view-stats", "admin-stats"}, Nothing)
AdminBlog == Screen({"admin-blog-posts"}, [remove |-> Keeps({"admin-blog-posts"})])
BlogPostForm ==
    Screen({"admin-blog-categories", "admin-blog-post"},
           [save |-> Keeps({"admin-blog-posts", "admin-blog-post"})])
AdminConfigOptions ==
    Screen({"admin-config-options", "admin-engines"},
           [save |-> Keeps({"admin-config-options", "catalog"}),
            remove |-> Keeps({"admin-config-options", "catalog"})])
AdminDiscountCodes ==
    Screen({"admin-discount-codes", "admin-plans"},
           [save |-> Keeps({"admin-discount-codes"}), remove |-> Keeps({"admin-discount-codes"})])
AdminEvents ==
    Screen({"admin-events"},
           [save |-> Keeps({"admin-events"}),
            activate |-> OnError(Keeps({"admin-events"}), {"admin-events"}),
            release |-> Keeps({"admin-events"})])
AdminFaqs ==
    Screen({"admin-faqs"}, [save |-> Keeps({"admin-faqs"}), remove |-> Keeps({"admin-faqs"})])
AdminFeatureDefinitions ==
    Screen({"feature-definitions"},
           [save |-> Keeps({"feature-definitions"}), remove |-> Keeps({"feature-definitions"})])
AdminLandingStats ==
    Screen({"admin-landing-stats"}, [mutation |-> Keeps({"admin-landing-stats", "public-stats"})])
AdminPayments == Screen({"admin-payments"}, [refundMutation |-> Keeps({"admin-payments"})])

\* A ruling settles an order, and a settled order is a purchase.  An approved upgrade
\* takes the credit below it out of the idle ones, or moves the plan of its event.  The
\* lists name the event that spent a credit.
PlanOrderRuling == {"admin-plan-orders", "admin-plan-order-history"}
ReassignPlan ==
    Tells({"admin-idle-plan-credits", "admin-org-events",
           "admin-plan-order-history", "admin-plan-purchases"},
          {"admin-idle-plan-credits", "admin-org-events"})
AdminPlanOrders ==
    Screen(PlanOrderRuling \cup {"admin-idle-plan-credits", "admin-plan-purchases", "admin-org-events"},
           [approve |-> Tells(PlanOrderRuling \cup {"admin-plan-purchases", "admin-idle-plan-credits",
                                                     "admin-org-events"}, PlanOrderRuling),
            reject |-> Tells({"admin-plan-orders"}, PlanOrderRuling),
            reassign |-> ReassignPlan])

AdminPlans ==
    Screen({"admin-plans"},
           [create |-> Keeps({"admin-plans"}), remove |-> Keeps({"admin-plans"}),
            savePrice |-> Keeps({"admin-plans"}), saveFeatures |-> Keeps({"admin-plans"})])
AdminSettings ==
    Screen({"platform-settings", "admin-site-settings"},
           [mutation |-> Keeps({"platform-settings"})])
AdminSiteSettings ==
    Screen({"admin-site-settings", "site-settings"},
           [save |-> Keeps({"admin-site-settings", "site-settings"})])
AdminSports ==
    Screen({"admin-sports"},
           [save |-> Keeps({"admin-sports", "catalog"}), remove |-> Keeps({"admin-sports", "catalog"}),
            saveStats |-> Keeps({"admin-sports", "catalog"}),
            savePositions |-> Keeps({"admin-sports", "catalog"}),
            saveRoles |-> Keeps({"admin-sports", "catalog"})])
AdminTestimonials ==
    Screen({"admin-testimonials"},
           [save |-> Keeps({"admin-testimonials"}), remove |-> Keeps({"admin-testimonials"})])
AdminUsers ==
    Screen({"admin-users"}, [update |-> Keeps({"admin-users"}), remove |-> Keeps({"admin-users"})])
AdminWithdrawals ==
    Screen({"admin-withdrawals"},
           [processMutation |-> Keeps({"admin-withdrawals"}),
            completeMutation |-> Keeps({"admin-withdrawals"}),
            rejectMutation |-> Keeps({"admin-withdrawals"})])

-----------------------------------------------------------------------------
(* An organizer's money and papers. *)
\* The organization counts its unspent credits and the bills that wait for a verdict.
Purchase == {"organizations", "plan-orders"}
Billing ==
    OrganizerScreen({"plan-orders"},
        [pay |-> Keeps(Purchase), proof |-> Keeps(Purchase),
         upgrade |-> Tells(Purchase, Purchase \cup {"events"})])
\* The page of the event shows the plan it runs on; a bill still to be paid is paid on billing.
UpgradePlan == Tells(Purchase \cup {"event"}, Purchase \cup {"events"})
UpgradeByTransfer == Then(Tells(Purchase, Purchase \cup {"events"}), "billing")
Plans ==
    OrganizerScreen({"public-plans"},
        [checkout |-> Then(Keeps(Purchase), "billing"), settled |-> Then(Keeps(Purchase), "newEvent")])
Wallet ==
    OrganizerScreen({"wallet", "wallet-transactions", "bank-accounts", "withdrawals"},
        [bankMutation |-> Tells({"bank-accounts", "wallet", "organizations"}, {"bank-accounts", "wallet"}),
         withdrawMutation |-> Keeps({"wallet", "wallet-transactions", "withdrawals"}),
         cancelMutation |-> Keeps({"wallet", "wallet-transactions", "withdrawals"})])
OrganizerSettings == OrganizerScreen({}, [save |-> Keeps({"organizations"})])
Onboarding_Invalidated ==
    Screen({"organizations"}, [createOrg |-> Then(Keeps({"organizations"}), "newEvent")])
Onboarding ==
    Screen({"organizations"},
        [createOrg |-> [Then(Keeps({"organizations"}), "newEvent") EXCEPT !.seeds = {"organizations"}]])
Certificates ==
    OrganizerScreen({"events", "certificates", "certificate-templates"},
        [send |-> Keeps({"certificates"}), removeCertificate |-> Keeps({"certificates"}),
         removeTemplate |-> Keeps({"certificate-templates"})])
GenerateCertificates ==
    OrganizerScreen({"events", "certificate-templates", "certificate-recipients"},
        [generate |-> Then(Keeps({"certificates"}), "certificates")])
CertificateTemplateForm ==
    OrganizerScreen({"events", "certificate-templates"},
        [save |-> Then(Keeps({"certificate-templates"}), "certificates")])
IdCards ==
    OrganizerScreen({"events", "id-card-templates"}, [remove |-> Keeps({"id-card-templates"})])
IdCardTemplateForm ==
    OrganizerScreen({"events", "id-card-templates"},
        [save |-> Then(Keeps({"id-card-templates"}), "idCards")])

-----------------------------------------------------------------------------
(* An organizer's event. *)
Events == OrganizerScreen({"events"}, Nothing)
TicketEvents == OrganizerScreen({"events"}, Nothing)
Deposits == OrganizerScreen({"event", "deposits"}, Nothing)
RaceEntries == OrganizerScreen({"event", "race-entries"}, Nothing)
NewEvent ==
    OrganizerScreen({"plan-orders"},
        [create |-> OnError(Then(Keeps(Purchase), "editEvent"), {"plan-orders"})])
RaceSetup == Keeps({"race-periods", "race-categories", "race-entries"})
\* The orders carry the name of their event.  Deleting it gives the credit back.
EventDeleted == Purchase \cup {"events", "event", "race-periods", "race-categories"}
EditEvent ==
    OrganizerScreen({"event", "plan-orders", "race-periods", "race-categories"},
        [update |-> Tells({"event", "plan-orders"}, {"event"}), changeStatus |-> Keeps({"event"}),
         remove |-> Then(Tells(EventDeleted, {}), "events"),
         upgrade |-> UpgradePlan, upgradeByTransfer |-> UpgradeByTransfer,
         createRaceCategory |-> RaceSetup, updateRaceCategory |-> RaceSetup,
         deleteRaceCategory |-> RaceSetup, savePeriods |-> RaceSetup])
EventDiscountCodes ==
    OrganizerScreen({"event", "event-discount-codes"},
        [save |-> Keeps({"event-discount-codes"}), remove |-> Keeps({"event-discount-codes"})])
EventMedia ==
    OrganizerScreen({"event", "photos", "sponsors"},
        [savePhotos |-> Seeding({"photos"}), removePhoto |-> Keeps({"photos"}),
         saveSponsor |-> Keeps({"sponsors"}), reorder |-> Keeps({"sponsors"}),
         removeSponsor |-> Keeps({"sponsors"})])
EventPayments ==
    OrganizerScreen({"event-payments"},
        [approve |-> Keeps({"event-payments"}), reject |-> Keeps({"event-payments"})])
Personnel ==
    OrganizerScreen({"event", "event-personnel"}, [save |-> Seeding({"event-personnel"})])
RegistrationForm ==
    OrganizerScreen({"event", "registration-form"},
        [save |-> Keeps({"registration-form", "event"})])
\* The event counts its teams.
NewTeams == Tells({"registrations", "event"}, {"registrations"})
Registrations ==
    OrganizerScreen({"event", "registrations"},
        [saveManual |-> NewTeams, importTeams |-> NewTeams, mutate |-> Keeps({"registrations"})])
TicketDesk == Keeps({"ticket-categories", "ticket-report", "ticket-orders", "checkins"})
Tickets ==
    OrganizerScreen({"event", "ticket-categories", "ticket-report", "checkins"},
        [createMut |-> TicketDesk, updateMut |-> TicketDesk, deleteMut |-> TicketDesk,
         sellMut |-> TicketDesk, checkInMut |-> TicketDesk])
TicketBuyers ==
    OrganizerScreen({"event", "ticket-orders"},
        [checkInMut |-> Keeps({"ticket-orders", "ticket-report", "checkins"})])
RaceScan ==
    OrganizerScreen({"event", "race-report", "race-checkins"},
        [scan |-> Keeps({"race-report", "race-checkins"})])

-----------------------------------------------------------------------------
(* The schedule, and the two doors a result comes in by. *)
\* A result is worth what it is worth once it is finished and confirmed: then it
\* is in the table, the scorers, the bans, opens the next Swiss round, and moves who
\* qualifies in the planned bracket.  Cards break ties in the table.
Counted == {"matches", "standings", "discipline", "leaderboard", "swiss", "knockout-plan"}

\* refreshEventData()
RefreshEventData_NoSwiss ==
    {"matches", "standings", "discipline", "registrations", "knockout-plan", "adjustments"}
RefreshEventData ==
    {"matches", "standings", "discipline", "registrations", "knockout-plan", "swiss", "adjustments"}
Rebuild == Tells(Counted \cup {"registrations"}, RefreshEventData)
Bracket == Tells({"matches", "discipline", "leaderboard", "knockout-plan"}, RefreshEventData)
OrganizerResult == Tells(Counted, {"matches", "standings", "discipline"})
OrganizerStats ==
    Tells({"leaderboard", "discipline", "match-stats", "standings", "knockout-plan"},
          {"leaderboard", "discipline", "match-stats"})
OrganizerClock == Keeps({"matches"})
ConfirmBar == Tells(Counted, {"matches", "standings", "leaderboard", "discipline"})
StatusActions == Tells(Counted, {"matches", "standings", "leaderboard", "discipline"})
RubberEditor == Tells({"matches", "standings", "swiss", "knockout-plan"}, {"matches", "standings"})
MatchCardDelete == Tells(Counted, {"matches", "standings", "discipline"})
MatchScheduleEditor == Keeps({"matches"})
PointAdjustments ==
    Tells({"adjustments", "standings", "knockout-plan"}, {"adjustments", "standings"})

ScheduleReads ==
    Counted \cup {"event", "registrations", "adjustments", "match-stats"}
Schedule ==
    OrganizerScreen(ScheduleReads,
        [generate |-> Rebuild,
         draw |-> Tells({"registrations", "knockout-plan", "standings"}, RefreshEventData),
         knockout |-> Bracket, dropKnockout |-> Bracket, editSlot |-> Bracket,
         savePlan |-> Tells({"knockout-plan"}, RefreshEventData),
         shufflePlan |-> Tells({"knockout-plan"}, RefreshEventData),
         shuffle |-> Tells({"matches"}, RefreshEventData),
         addRound |-> Tells({"matches", "swiss"}, RefreshEventData),
         dropRound |-> Tells({"matches", "swiss"}, RefreshEventData),
         addManual |-> Tells({"matches"}, RefreshEventData),
         saveResult |-> OrganizerResult, saveStats |-> OrganizerStats,
         clock |-> OrganizerClock, confirm |-> ConfirmBar, changeStatus |-> StatusActions,
         saveRubber |-> RubberEditor, del |-> MatchCardDelete,
         reschedule |-> MatchScheduleEditor, adjust |-> PointAdjustments])

OfficiatingResult == Keeps({"officiating-matches", "officiating-discipline"})
OfficiatingStats == Keeps({"officiating-discipline", "officiating-match-stats"})
OfficiatingClock == Keeps({"officiating-matches"})
OfficiatingEvent ==
    Screen({"officiating-event", "officiating-matches", "officiating-discipline", "officiating-match-stats"},
        [saveResult |-> OfficiatingResult, saveStats |-> OfficiatingStats,
         clock |-> OfficiatingClock])
OfficiatingMatch ==
    Screen({"officiating-lineups"},
        [approve |-> Keeps({"officiating-lineups"}), reject |-> Keeps({"officiating-lineups"})])

-----------------------------------------------------------------------------
(* A participant's team, and the public's orders. *)
Lineup ==
    Screen({"team-lineup"},
        [save |-> Keeps({"team-lineup", "team-matches"}), submit |-> Keeps({"team-lineup", "team-matches"})])
MyTeam ==
    Screen({"my-team"},
        [save |-> Keeps({"my-team", "my-teams"}),
         withdraw |-> Then(Keeps({"my-team", "my-teams"}), "myTeams"),
         pay |-> Keeps({"my-team", "my-teams"})])
MyTeams == Screen({"my-teams"}, Nothing)
TeamMatches == Screen({"team-matches"}, Nothing)
\* An order takes stock the page shows; a buyer who comes back from his e-ticket is
\* not told.  One sent to the gateway comes back to an empty cache.
PublicTickets ==
    Screen({"public-event", "public-tickets"},
        [purchase |-> Then(Tells({"public-tickets"}, {}), "ticketOrder")])
PublicRace ==
    Screen({"public-event", "public-race"},
        [register |-> Then(Tells({"public-race"}, {}), "raceEntry")])
TicketOrder == Screen({"ticket-order"}, [proof |-> Keeps({"ticket-order"})])
RaceEntry == Screen({"race-entry"}, [proof |-> Keeps({"race-entry"})])

-----------------------------------------------------------------------------
DashboardScreens ==
    [elsewhere |-> Screen({}, Nothing), adminHome |-> AdminHome, plans |-> Plans,
     ticketEvents |-> TicketEvents, deposits |-> Deposits, raceEntries |-> RaceEntries,
     teamMatches |-> TeamMatches,
     adminBlogCategories |-> AdminBlogCategories, adminBlog |-> AdminBlog,
     blogPostForm |-> BlogPostForm, adminConfigOptions |-> AdminConfigOptions,
     adminDiscountCodes |-> AdminDiscountCodes, adminEvents |-> AdminEvents,
     adminFaqs |-> AdminFaqs, adminFeatureDefinitions |-> AdminFeatureDefinitions,
     adminLandingStats |-> AdminLandingStats, adminPayments |-> AdminPayments,
     adminPlanOrders |-> AdminPlanOrders, adminPlans |-> AdminPlans,
     adminSettings |-> AdminSettings, adminSiteSettings |-> AdminSiteSettings,
     adminSports |-> AdminSports, adminTestimonials |-> AdminTestimonials,
     adminUsers |-> AdminUsers, adminWithdrawals |-> AdminWithdrawals,
     billing |-> Billing, wallet |-> Wallet, organizerSettings |-> OrganizerSettings,
     onboarding |-> Onboarding, certificates |-> Certificates,
     generateCertificates |-> GenerateCertificates,
     certificateTemplateForm |-> CertificateTemplateForm, idCards |-> IdCards,
     idCardTemplateForm |-> IdCardTemplateForm, events |-> Events, newEvent |-> NewEvent,
     editEvent |-> EditEvent, eventDiscountCodes |-> EventDiscountCodes,
     eventMedia |-> EventMedia, eventPayments |-> EventPayments, personnel |-> Personnel,
     registrationForm |-> RegistrationForm, registrations |-> Registrations,
     tickets |-> Tickets, ticketBuyers |-> TicketBuyers, raceScan |-> RaceScan,
     schedule |-> Schedule, officiatingEvent |-> OfficiatingEvent,
     officiatingMatch |-> OfficiatingMatch, lineup |-> Lineup, myTeam |-> MyTeam,
     myTeams |-> MyTeams, ticketOrder |-> TicketOrder, raceEntry |-> RaceEntry,
     publicTickets |-> PublicTickets, publicRace |-> PublicRace]

\* What onSuccess tells nobody of, and the page goes on showing as it was.
Untold(p, ms, ks) == {<<<<p, m>>, k>> : m \in ms, k \in ks}
Results == {"saveResult", "confirm", "changeStatus", "saveRubber", "del"}
ToldNobody ==
    UNION {Untold("adminPlanOrders", {"approve"},
                  {"admin-plan-purchases", "admin-idle-plan-credits", "admin-org-events"}),
           Untold("adminPlanOrders", {"reassign"}, {"admin-plan-purchases", "admin-plan-order-history"}),
           Untold("wallet", {"bankMutation"}, {"organizations"}),
           Untold("editEvent", {"update"}, {"plan-orders"}),
           Untold("editEvent", {"remove"}, EventDeleted),
           Untold("editEvent", {"upgrade"}, {"event"}),
           Untold("registrations", {"saveManual", "importTeams"}, {"event"}),
           Untold("publicTickets", {"purchase"}, {"public-tickets"}),
           Untold("publicRace", {"register"}, {"public-race"}),
           Untold("schedule", {"generate", "knockout", "dropKnockout", "editSlot", "saveResult", "del"},
                  {"leaderboard"}),
           Untold("schedule", Results, {"swiss", "knockout-plan"}),
           Untold("schedule", {"saveStats", "adjust"}, {"knockout-plan"}),
           Untold("schedule", {"saveStats"}, {"standings"})}

\* A guard of the next page acts on the key at once.
GuardsNext == {<<<<"onboarding", "createOrg">>, "organizations">>}

\* refetchInterval, while an order waits for its payment.
PolledKeys == {"ticket-order", "race-entry"}

DashboardKeys == UNION {DashboardScreens[p].reads : p \in DOMAIN DashboardScreens}
=============================================================================
