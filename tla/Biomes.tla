------------------------------- MODULE Biomes -------------------------------
(***************************************************************************)
(* The roster of biomes and sub-biomes, and how one of each is picked for   *)
(* a point (fallingsand_worldgen biomes.rs).  Every window is in percent;   *)
(* materials are named as they are in the content.  What only scales the    *)
(* chance of a draw (cover, gas, solidity, the density of galleries) is     *)
(* left out: there the draw is a choice.                                    *)
(***************************************************************************)
EXTENDS Integers, Sequences, FiniteSets, FiniteSetsExt, SequencesExt, Functions

Wide == <<0, 100>>

TurfSkin == [present |-> TRUE, cover |-> "turf", coverDepth |-> 1, soil |-> "dirt",
  soilDepth |-> 10, subsoil |-> "clay", subsoilDepth |-> 40, tree |-> "none",
  treeSpacing |-> 0, groundCover |-> "grass blade", submerged |-> FALSE, wade |-> 0,
  boulderSpacing |-> 600, boulder |-> "granite"]

BuriedSub == [depth |-> Wide, heat |-> Wide, wet |-> Wide, weird |-> Wide, variant |-> Wide,
  priority |-> 0, lithology |-> "clastic", stone |-> "granite", streak |-> "gravel",
  sediment |-> "gravel", fluid |-> "none", level |-> 0, gas |-> "none",
  worms |-> 105, chambers |-> 100, prize |-> "iron ore", skin |-> [TurfSkin EXCEPT !.present = FALSE]]

DaylightSub == [BuriedSub EXCEPT !.lithology = "soil", !.stone = "limestone",
  !.streak = "clay", !.worms = 50, !.chambers = 30, !.prize = "native copper",
  !.skin = TurfSkin]

\* A biome declares windows, its members own what the place is made of.
Biome(daylight, defaults, windows, members) ==
  windows @@ [land |-> Wide, relief |-> Wide, rock |-> Wide, heat |-> Wide, wet |-> Wide,
              weird |-> Wide, depth |-> Wide, daylight |-> daylight,
              members |-> [i \in DOMAIN members |-> members[i] @@ defaults]]
DaylightBiome(windows, members) == Biome(TRUE, DaylightSub, windows, members)
BuriedBiome(windows, members) == Biome(FALSE, BuriedSub, windows, members)
-----------------------------------------------------------------------------
Meadow == DaylightBiome([land |-> <<30, 100>>, depth |-> <<0, 5>>, priority |-> 0],
  <<[name |-> "Meadowveldt",
    skin |-> [tree |-> "broadleaf", treeSpacing |-> 130,
              groundCover |-> "wildflower"] @@ TurfSkin],
   [name |-> "Hedgerow Downs", variant |-> <<50, 100>>, priority |-> 1,
    skin |-> [soilDepth |-> 16, subsoil |-> "limestone", subsoilDepth |-> 44,
              tree |-> "hawthorn", treeSpacing |-> 90] @@ TurfSkin]>>)

Pinewood == DaylightBiome([land |-> <<32, 100>>, heat |-> <<16, 62>>, wet |-> <<50, 94>>,
        weird |-> <<0, 62>>, depth |-> <<0, 5>>, priority |-> 1],
  <<[name |-> "Resinpine Wood", lithology |-> "crystalline", stone |-> "granite",
    streak |-> "quartz",
    skin |-> [cover |-> "moss", coverDepth |-> 2, soil |-> "peat", soilDepth |-> 24,
              subsoil |-> "granite", subsoilDepth |-> 50, tree |-> "resinpine",
              treeSpacing |-> 34, groundCover |-> "lichen"] @@ TurfSkin],
   [name |-> "Redwood Colonnade", variant |-> <<54, 100>>, priority |-> 1,
    lithology |-> "crystalline", stone |-> "granite", streak |-> "quartz",
    skin |-> [cover |-> "moss", coverDepth |-> 6, soil |-> "dirt", soilDepth |-> 40,
              subsoil |-> "granite", subsoilDepth |-> 20, tree |-> "redwood",
              treeSpacing |-> 70, groundCover |-> "moss"] @@ TurfSkin]>>)

Snowfield == DaylightBiome([land |-> <<30, 100>>, heat |-> <<0, 20>>, depth |-> <<0, 5>>, priority |-> 2],
  <<[name |-> "Hoarfrost Barrens", lithology |-> "frozen", stone |-> "permafrost",
    streak |-> "blue ice", sediment |-> "snow",
    skin |-> [cover |-> "snow", coverDepth |-> 20, soil |-> "permafrost",
              soilDepth |-> 32, subsoil |-> "blue ice", subsoilDepth |-> 50,
              tree |-> "dwarfwillow", treeSpacing |-> 260, groundCover |-> "lichen"] @@ TurfSkin],
   [name |-> "Glacier Snout", variant |-> <<56, 100>>, priority |-> 1,
    lithology |-> "frozen", stone |-> "blue ice", streak |-> "permafrost",
    sediment |-> "snow",
    skin |-> [cover |-> "snow", coverDepth |-> 12, soil |-> "blue ice",
              soilDepth |-> 40, subsoil |-> "blue ice", subsoilDepth |-> 80,
              groundCover |-> "none", boulderSpacing |-> 0] @@ TurfSkin]>>)

Dunesea == DaylightBiome([land |-> <<34, 100>>, heat |-> <<62, 100>>, wet |-> <<0, 38>>,
        weird |-> <<0, 70>>, depth |-> <<0, 5>>, priority |-> 2],
  <<[name |-> "Dune Sea", lithology |-> "clastic", stone |-> "sandstone",
    streak |-> "sand", sediment |-> "sand",
    skin |-> [cover |-> "sand", coverDepth |-> 3, soil |-> "sand", soilDepth |-> 44,
              subsoil |-> "sandstone", subsoilDepth |-> 60, groundCover |-> "none",
              boulderSpacing |-> 0] @@ TurfSkin],
   [name |-> "Salt Pan", wet |-> <<24, 44>>, priority |-> 1, lithology |-> "clastic",
    stone |-> "sandstone", streak |-> "gypsum", sediment |-> "salt",
    prize |-> "salt",
    skin |-> [cover |-> "salt", coverDepth |-> 6, soil |-> "clay", soilDepth |-> 34,
              subsoil |-> "sandstone", subsoilDepth |-> 40, groundCover |-> "none",
              boulderSpacing |-> 0] @@ TurfSkin]>>)

Coast == DaylightBiome([land |-> <<0, 30>>, weird |-> <<0, 62>>, depth |-> <<0, 5>>, priority |-> 3],
  <<[name |-> "Shoal Shelf", lithology |-> "clastic", stone |-> "sandstone",
    streak |-> "clay", sediment |-> "sand",
    skin |-> [cover |-> "sand", coverDepth |-> 4, soil |-> "sand", soilDepth |-> 24,
              subsoil |-> "clay", subsoilDepth |-> 50, groundCover |-> "kelp",
              submerged |-> TRUE, boulderSpacing |-> 0] @@ TurfSkin],
   [name |-> "Tidewrack Flats", variant |-> <<54, 100>>, priority |-> 1,
    lithology |-> "soil", stone |-> "clay", streak |-> "mud", sediment |-> "mud",
    skin |-> [cover |-> "mud", coverDepth |-> 5, soil |-> "mud", soilDepth |-> 26,
              subsoil |-> "clay", subsoilDepth |-> 44, groundCover |-> "reed",
              submerged |-> TRUE, wade |-> 10, boulderSpacing |-> 0] @@ TurfSkin]>>)

Saltmarsh == DaylightBiome([land |-> <<24, 46>>, relief |-> <<40, 100>>, heat |-> <<48, 100>>,
        wet |-> <<56, 100>>, weird |-> <<0, 62>>, depth |-> <<0, 5>>, priority |-> 3],
  <<[name |-> "Mangrove Sump", lithology |-> "soil", stone |-> "clay",
    streak |-> "peat", sediment |-> "mud",
    skin |-> [cover |-> "mud", coverDepth |-> 3, soil |-> "peat", soilDepth |-> 26,
              subsoil |-> "clay", subsoilDepth |-> 44, tree |-> "mangrove",
              treeSpacing |-> 60, groundCover |-> "reed", wade |-> 16,
              boulderSpacing |-> 0] @@ TurfSkin],
   [name |-> "Reedbeds", variant |-> <<52, 100>>, priority |-> 1,
    lithology |-> "soil", stone |-> "peat", streak |-> "clay", sediment |-> "mud",
    skin |-> [cover |-> "peat", coverDepth |-> 6, soil |-> "mud", soilDepth |-> 30,
              subsoil |-> "clay", subsoilDepth |-> 40, groundCover |-> "reed",
              wade |-> 12, boulderSpacing |-> 0] @@ TurfSkin]>>)

Ashland == DaylightBiome([land |-> <<32, 100>>, rock |-> <<54, 100>>, heat |-> <<44, 100>>,
        wet |-> <<0, 60>>, weird |-> <<12, 100>>, depth |-> <<0, 5>>, priority |-> 3],
  <<[name |-> "Basalt Colonnade", lithology |-> "igneous", stone |-> "basalt",
    streak |-> "obsidian", sediment |-> "ash",
    skin |-> [cover |-> "basalt", coverDepth |-> 2, soil |-> "ash", soilDepth |-> 8,
              subsoil |-> "basalt", subsoilDepth |-> 60, groundCover |-> "none",
              boulderSpacing |-> 300, boulder |-> "basalt"] @@ TurfSkin],
   [name |-> "Ashen Barrens", variant |-> <<48, 100>>, priority |-> 1,
    lithology |-> "igneous", stone |-> "basalt", streak |-> "charcoal",
    sediment |-> "ash",
    skin |-> [cover |-> "ash", coverDepth |-> 14, soil |-> "charcoal",
              soilDepth |-> 8, subsoil |-> "basalt", subsoilDepth |-> 44,
              tree |-> "snag", treeSpacing |-> 110, groundCover |-> "none",
              boulderSpacing |-> 0] @@ TurfSkin]>>)

Sporehall == DaylightBiome([land |-> <<32, 100>>, heat |-> <<30, 78>>, wet |-> <<52, 100>>,
        weird |-> <<28, 100>>, depth |-> <<0, 5>>, priority |-> 4],
  <<[name |-> "Sporehall Clearing", lithology |-> "fungal", stone |-> "mycostone",
    streak |-> "mycelium", sediment |-> "mycelium", prize |-> "amber",
    skin |-> [cover |-> "mycelium", coverDepth |-> 4, soil |-> "peat",
              soilDepth |-> 22, subsoil |-> "mycostone", subsoilDepth |-> 44,
              tree |-> "sporecap", treeSpacing |-> 54, groundCover |-> "glowcap",
              boulderSpacing |-> 0] @@ TurfSkin],
   [name |-> "Slime Flats", variant |-> <<50, 100>>, priority |-> 1,
    lithology |-> "fungal", stone |-> "mycostone", streak |-> "peat",
    sediment |-> "mycelium", fluid |-> "slime", level |-> -6, prize |-> "amber",
    skin |-> [cover |-> "mycelium", coverDepth |-> 8, soil |-> "peat",
              soilDepth |-> 26, subsoil |-> "mycostone", subsoilDepth |-> 40,
              tree |-> "sporecap", treeSpacing |-> 140, groundCover |-> "mycelium",
              boulderSpacing |-> 0] @@ TurfSkin]>>)

Mines == BuriedBiome([rock |-> <<38, 64>>, weird |-> <<0, 72>>, depth |-> <<5, 82>>,
        priority |-> 1],
  <<[name |-> "Granite Workings", lithology |-> "crystalline", stone |-> "granite",
    streak |-> "quartz", sediment |-> "gravel", prize |-> "tin ore",
    worms |-> 95, chambers |-> 80],
   [name |-> "Oil Seeps", variant |-> <<52, 100>>, priority |-> 1,
    lithology |-> "crystalline", stone |-> "granite", streak |-> "coal",
    sediment |-> "gravel", fluid |-> "oil", level |-> -900, gas |-> "firedamp",
    prize |-> "native copper"],
   [name |-> "Goldveins", depth |-> <<40, 82>>, weird |-> <<22, 100>>,
    priority |-> 2, lithology |-> "crystalline", stone |-> "granite",
    streak |-> "gold", sediment |-> "gravel", fluid |-> "lava", level |-> -6400,
    prize |-> "gold"]>>)

Coalpits == BuriedBiome([rock |-> <<16, 42>>, wet |-> <<0, 66>>, weird |-> <<0, 72>>,
        depth |-> <<5, 78>>, priority |-> 2],
  <<[name |-> "Coal Measures", lithology |-> "clastic", stone |-> "shale",
    streak |-> "coal", sediment |-> "coal", gas |-> "firedamp", prize |-> "coal"],
   [name |-> "Firedamp Seams", variant |-> <<56, 100>>, priority |-> 1,
    lithology |-> "clastic", stone |-> "shale", streak |-> "coal",
    sediment |-> "coal", fluid |-> "oil", level |-> -1600, gas |-> "firedamp",
    prize |-> "sulfur", worms |-> 120],
   [name |-> "Tar Sink", depth |-> <<24, 78>>, wet |-> <<44, 100>>, priority |-> 2,
    lithology |-> "clastic", stone |-> "shale", streak |-> "coal",
    sediment |-> "tar", fluid |-> "tar", level |-> -2400, gas |-> "firedamp",
    prize |-> "amber"]>>)

Drowned == BuriedBiome([rock |-> <<0, 26>>, weird |-> <<0, 72>>, depth |-> <<5, 72>>, priority |-> 1],
  <<[name |-> "Karst Halls", lithology |-> "carbonate", stone |-> "limestone",
    streak |-> "gypsum", sediment |-> "gravel", prize |-> "flint",
    worms |-> 120, chambers |-> 150],
   [name |-> "Flooded Galleries", wet |-> <<48, 100>>, priority |-> 1,
    lithology |-> "carbonate", stone |-> "limestone", streak |-> "clay",
    sediment |-> "mud", fluid |-> "water", level |-> -1200,
    prize |-> "native copper", chambers |-> 140],
   [name |-> "Gypsum Vaults", variant |-> <<62, 100>>, priority |-> 2,
    lithology |-> "carbonate", stone |-> "gypsum", streak |-> "limestone",
    sediment |-> "gravel", prize |-> "gypsum", chambers |-> 160]>>)

Sandtombs == BuriedBiome([heat |-> <<66, 100>>, wet |-> <<0, 36>>, weird |-> <<0, 80>>,
        depth |-> <<5, 52>>, priority |-> 2],
  <<[name |-> "Sand Warrens", lithology |-> "clastic", stone |-> "sandstone",
    streak |-> "sand", sediment |-> "sand", prize |-> "saltpeter", worms |-> 115],
   [name |-> "Bone Ossuary", variant |-> <<54, 100>>, priority |-> 1,
    lithology |-> "carbonate", stone |-> "bone", streak |-> "sandstone",
    sediment |-> "sand", gas |-> "chokedamp", prize |-> "amber"]>>)

Fungal == BuriedBiome([heat |-> <<26, 76>>, wet |-> <<62, 100>>, weird |-> <<16, 100>>,
        depth |-> <<5, 62>>, priority |-> 3],
  <<[name |-> "Mycostone Bloom", lithology |-> "fungal", stone |-> "mycostone",
    streak |-> "mycelium", sediment |-> "mycelium", gas |-> "sporegas",
    prize |-> "amber", chambers |-> 150],
   [name |-> "Slime Warrens", variant |-> <<50, 100>>, priority |-> 1,
    lithology |-> "fungal", stone |-> "mycostone", streak |-> "mycelium",
    sediment |-> "mycelium", fluid |-> "slime", level |-> -1800, gas |-> "sporegas",
    prize |-> "lumen", worms |-> 130, chambers |-> 170]>>)

Snowydepths == BuriedBiome([heat |-> <<0, 20>>, depth |-> <<5, 58>>, priority |-> 2],
  <<[name |-> "Frostpan", lithology |-> "frozen", stone |-> "permafrost",
    streak |-> "blue ice", sediment |-> "snow", prize |-> "quartz", worms |-> 85],
   [name |-> "Iceglass Hollows", variant |-> <<52, 100>>, priority |-> 1,
    lithology |-> "frozen", stone |-> "blue ice", streak |-> "permafrost",
    sediment |-> "snow", fluid |-> "water", level |-> -1100, prize |-> "lumen",
    chambers |-> 150]>>)

Sludgeworks == BuriedBiome([heat |-> <<28, 92>>, wet |-> <<34, 100>>, weird |-> <<24, 100>>,
        depth |-> <<18, 86>>, priority |-> 4],
  <<[name |-> "Sludge Pools", lithology |-> "clastic", stone |-> "shale",
    streak |-> "sulfur", sediment |-> "gravel", fluid |-> "toxic sludge",
    level |-> -2200, gas |-> "toxic gas", prize |-> "sulfur", chambers |-> 140],
   [name |-> "Fuming Terraces", variant |-> <<54, 100>>, priority |-> 1,
    lithology |-> "clastic", stone |-> "shale", streak |-> "sulfur",
    sediment |-> "sulfur", fluid |-> "lava", level |-> -5200, gas |-> "toxic gas",
    prize |-> "saltpeter"]>>)

Acidcaves == BuriedBiome([rock |-> <<0, 42>>, heat |-> <<50, 100>>, wet |-> <<36, 100>>,
        depth |-> <<22, 90>>, priority |-> 4],
  <<[name |-> "Acid Sumps", lithology |-> "carbonate", stone |-> "limestone",
    streak |-> "sulfur", sediment |-> "gravel", fluid |-> "acid", level |-> -3000,
    gas |-> "toxic gas", prize |-> "gold", chambers |-> 150],
   [name |-> "Etched Halls", variant |-> <<56, 100>>, priority |-> 1,
    lithology |-> "carbonate", stone |-> "limestone", streak |-> "quartz",
    sediment |-> "gravel", gas |-> "toxic gas", prize |-> "lumen",
    worms |-> 130, chambers |-> 180]>>)

Lavatubes == BuriedBiome([rock |-> <<62, 100>>, heat |-> <<50, 100>>, depth |-> <<24, 100>>,
        priority |-> 2],
  <<[name |-> "Basalt Galleries", lithology |-> "igneous", stone |-> "basalt",
    streak |-> "obsidian", sediment |-> "ash", fluid |-> "lava", level |-> -4200,
    prize |-> "iron ore"],
   [name |-> "Obsidian Shelves", variant |-> <<0, 42>>, depth |-> <<42, 100>>,
    priority |-> 1, lithology |-> "igneous", stone |-> "obsidian",
    streak |-> "basalt", sediment |-> "ash", prize |-> "gold"],
   [name |-> "Ember Sea", depth |-> <<50, 100>>, heat |-> <<70, 100>>,
    priority |-> 2, lithology |-> "igneous", stone |-> "basalt",
    streak |-> "obsidian", sediment |-> "ash", fluid |-> "lava", level |-> -2600,
    prize |-> "gold", chambers |-> 140]>>)

Crystal == BuriedBiome([wet |-> <<0, 68>>, weird |-> <<28, 100>>, depth |-> <<34, 100>>,
        priority |-> 3],
  <<[name |-> "Quartz Hollows", lithology |-> "crystalline", stone |-> "quartz",
    streak |-> "granite", sediment |-> "gravel", prize |-> "quartz", chambers |-> 160],
   [name |-> "Lumen Hollows", variant |-> <<50, 100>>, priority |-> 1,
    lithology |-> "crystalline", stone |-> "quartz", streak |-> "quartz",
    sediment |-> "gravel", gas |-> "voidmist", prize |-> "lumen", chambers |-> 180]>>)

Meatgrounds == BuriedBiome([depth |-> <<74, 100>>, priority |-> 2],
  <<[name |-> "Titanflesh Weft", lithology |-> "flesh", stone |-> "titanflesh",
    streak |-> "bone", sediment |-> "bone", gas |-> "voidmist", prize |-> "lumen",
    chambers |-> 160],
   [name |-> "Blood Marsh", wet |-> <<54, 100>>, priority |-> 1,
    lithology |-> "flesh", stone |-> "titanflesh", streak |-> "bone",
    sediment |-> "bone", fluid |-> "blood", level |-> -8600, gas |-> "chokedamp",
    prize |-> "gold"],
   [name |-> "Hollow Choir", variant |-> <<58, 100>>, priority |-> 2,
    lithology |-> "flesh", stone |-> "bone", streak |-> "titanflesh",
    sediment |-> "bone", fluid |-> "ichor", level |-> -14000, gas |-> "voidmist",
    prize |-> "lumen", chambers |-> 190]>>)

Roster == <<Meadow, Pinewood, Snowfield, Dunesea, Coast, Saltmarsh, Ashland, Sporehall,
  Mines, Coalpits, Drowned, Sandtombs, Fungal, Snowydepths, Sludgeworks, Acidcaves,
  Lavatubes, Crystal, Meatgrounds>>
-----------------------------------------------------------------------------
(* The match: the nearest windows win, and of equals the higher priority,   *)
(* and of those the first in the list.                                      *)

SquaredGap(value, window) ==
  LET gap == IF value < window[1] THEN window[1] - value
             ELSE IF value > window[2] THEN value - window[2] ELSE 0
  IN  gap * gap

Best(candidates, Miss(_), Priority(_)) ==
  LET least == Min({Miss(i) : i \in candidates})
      nearest == {i \in candidates : Miss(i) = least}
      first == Max({Priority(i) : i \in nearest})
  IN  Min({i \in nearest : Priority(i) = first})

\* How far a climate is from the windows of a biome.
Misfit(params, b) ==
  160 * SquaredGap(params.depth, b.depth) + 24 * SquaredGap(params.rock, b.rock)
    + 10 * (SquaredGap(params.land, b.land) + SquaredGap(params.relief, b.relief)
            + SquaredGap(params.heat, b.heat) + SquaredGap(params.wet, b.wet)
            + SquaredGap(params.weird, b.weird))

PickFrom(biomes, params, daylight) ==
  Best({i \in DOMAIN biomes : biomes[i].daylight = daylight},
       LAMBDA i : Misfit(params, biomes[i]), LAMBDA i : biomes[i].priority)
PickBiome(params, daylight) == PickFrom(Roster, params, daylight)

PickMember(members, params) ==
  LET miss(i) == 3 * SquaredGap(params.depth, members[i].depth)
                 + SquaredGap(params.heat, members[i].heat)
                 + SquaredGap(params.wet, members[i].wet)
                 + SquaredGap(params.weird, members[i].weird)
                 + SquaredGap(params.variant, members[i].variant)
  IN  Best(DOMAIN members, miss, LAMBDA i : members[i].priority)
PickSub(biome, params) == PickMember(Roster[biome].members, params)

\* What an ore may replace.
Hosts(sub, present) ==
  \/ present \in {sub.stone, sub.streak}
  \/ sub.skin.present /\ present = sub.skin.subsoil
=============================================================================
